---- MODULE Spec2Model ----
(***************************************************************************)
(* Model of the autonomous agent harness: the orchestration loop of        *)
(* run_autonomous_agent, the session runner run_agent_session and the      *)
(* idle-timeout guard async_iter_with_timeout (src/agent.py).              *)
(***************************************************************************)
EXTENDS Integers, Sequences, FiniteSets, TLC

\* ------------------------------------------------------------------------
\* Bounds of the model
\* ------------------------------------------------------------------------
\* largest iteration number the loop is explored to
MaxIteration == 5
\* largest --max-iterations value drawn
MaxMaxIterations == 2
\* largest --quit-on-abort value drawn
MaxThreshold == 3
\* largest number of items a source of the guard delivers
MaxItems == 2
\* largest delay (in ticks) of one source event
MaxDelay == 3
\* largest idle deadline (in ticks) drawn
MaxTimeout == 2

\* ------------------------------------------------------------------------
\* Optional[int]: None is the empty set, a value v is {v}
\* ------------------------------------------------------------------------
None == {}

Some(v) == {v}

IsNone(o) == o = {}

Get(o) == CHOOSE v \in o : TRUE

\* Python truthiness of an Optional[int]: None and 0 are falsy
Truthy(o) == o # {} /\ Get(o) # 0

VARIABLES
  \* ---- run_autonomous_agent ----
  pc,                    \* position of the loop
  max_iterations,        \* Optional[int]
  idle_timeout,          \* Optional[int]
  quit_on_abort,         \* Optional[int]
  tests_file_exists,     \* feature_list.json exists in the metadata directory
  has_code_entries,      \* the project directory holds a non-ignored entry
  spec_txt_exists,       \* spec.txt exists in the metadata directory
  is_first_run,          \* read once at startup
  has_existing_code,     \* read once at startup
  session_type,          \* "unset", "initializer", "onboarding", "coding"
  iteration,
  consecutive_failures,
  prompt,                \* prompt chosen for the current session
  current_model,         \* model chosen for the current session
  client_open,           \* the connection of the current iteration is open
  clients_created,       \* number of clients created by create_client
  open_clients,          \* the clients whose connection is open
  status,                \* status returned by the last session
  reason,                \* why the loop ended
  sessions,              \* history: one record per session started
  outcomes,              \* history: the statuses evaluated, in order
  interrupted,           \* an interrupt was delivered to the loop
  \* ---- async_iter_with_timeout ----
  g_source,              \* the events the wrapped iterator will produce
  g_timeout,             \* timeout_seconds, Optional
  g_pos,                 \* number of __anext__ requests answered
  g_yielded,             \* items yielded to the consumer, in order
  g_state,               \* "iterating", "ended", "idle_timeout", "raised",
                         \* "raised_timeout"
  g_reported,            \* the number of seconds the IdleTimeoutError reports
  g_elapsed,             \* ticks elapsed since the guard was started
  \* ---- run_agent_session ----
  s_pc,                  \* "query", "stream", "returned", "interrupted"
  s_query,               \* what client.query will do: "ok", "fail", "hang"
  response_text,         \* the text accumulated, a sequence of characters
  s_display,             \* what has been printed, in order
  s_status,              \* the status returned
  s_response,            \* the second component of the value returned
  \* ---- main ----
  main_pc,               \* "start", "parsed", "resolved", "running"
  cli,                   \* the options given on the command line
  args,                  \* the namespace parse_args returns
  main_init_model,       \* main's init_model
  main_code_model,       \* main's code_model
  \* ---- has_existing_codebase ----
  hec_pc,                \* "start", "scan", "returned"
  project_exists,        \* project_dir.exists()
  dir_items,             \* project_dir.iterdir(): the names, in listing order
  hec_pos,               \* number of items the for loop has taken
  hec_result,            \* the value returned
  \* ---- metadata_dir ----
  md_entries,            \* the names that exist in project_dir
  md_calls,              \* the calls made so far: function, result, effect
  \* ---- progress ----
  ledger,                \* feature_list.json: missing, invalid, or a list of features
  progress_calls,        \* which functions of progress.py have returned
  count_result,          \* what count_passing_tests returned
  breakdown_result,      \* what get_feature_breakdown returned
  \* ---- the project directory over runs of the program ----
  p_pc,                  \* "startup", "session", "summary", "stopped"
  md_ledger,             \* feature_list.json in the metadata directory
  root_ledger,           \* feature_list.json in the project directory
  spec_txt,              \* spec.txt in the metadata directory: its content
  has_code,              \* has_existing_codebase(project_dir)
  p_session_type,        \* the session type selected at startup
  summary,               \* what print_progress_summary printed last
  runs                   \* how often the program was started

loopVars == <<pc, max_iterations, idle_timeout, quit_on_abort, tests_file_exists,
              has_code_entries, spec_txt_exists, is_first_run, has_existing_code,
              session_type, iteration, consecutive_failures, prompt, current_model,
              client_open, clients_created, open_clients, status, reason, sessions,
              outcomes, interrupted>>

guardVars == <<g_source, g_timeout, g_pos, g_yielded, g_state, g_reported, g_elapsed>>

sessionVars == <<s_pc, s_query, response_text, s_display, s_status, s_response>>

mainVars == <<main_pc, cli, args, main_init_model, main_code_model>>

codebaseVars == <<hec_pc, project_exists, dir_items, hec_pos, hec_result>>

metadataVars == <<md_entries, md_calls>>

progressVars == <<ledger, progress_calls, count_result, breakdown_result>>

projectVars == <<p_pc, md_ledger, root_ledger, spec_txt, has_code, p_session_type,
                 summary, runs>>

fileVars == <<codebaseVars, metadataVars, progressVars, projectVars>>

vars == <<loopVars, guardVars, sessionVars, mainVars, fileVars>>

\* ------------------------------------------------------------------------
\* The wrapped iterator: what it will answer to successive __anext__ calls.
\* An event is an item, the normal end ("stop"), a failure raised by the
\* iterator ("raise": some Exception, "raise_timeout": an asyncio.TimeoutError
\* of its own), each after a delay, or no answer at all ("hang").
\* ------------------------------------------------------------------------
ItemValues == {1, 2}

ItemEvents == [kind : {"item"}, delay : 0..MaxDelay, val : ItemValues]

FinalEvents == [kind : {"stop", "raise", "raise_timeout"}, delay : 0..MaxDelay, val : {0}]
                 \cup {[kind |-> "hang", delay |-> 0, val |-> 0]}

SeqsUpTo(S, n) == UNION {[1..k -> S] : k \in 0..n}

Sources == {items \o <<f>> : items \in SeqsUpTo(ItemEvents, MaxItems), f \in FinalEvents}

Timeouts == {None} \cup {Some(t) : t \in 0..MaxTimeout}

\* asyncio.wait_for(aiter.__anext__(), timeout=t): the answer of the iterator
\* races a timer of t ticks. A timeout <= 0 cancels the request before it
\* has run; an answer due exactly when the timer fires may win or lose.
WaitFor(e, t) ==
  IF t <= 0 THEN {"timeout"}
  ELSE IF e.kind = "hang" THEN {"timeout"}
  ELSE IF e.delay < t THEN {"result"}
  ELSE IF e.delay > t THEN {"timeout"}
  ELSE {"result", "timeout"}

SourceResult_RaiseSwallowed(e) ==
  CASE e.kind = "item" -> "yield"
    [] e.kind = "stop" -> "return"
    [] e.kind = "raise" -> "return"
    [] e.kind = "raise_timeout" -> "return"
    [] e.kind = "hang" -> "blocked"

\* what the answer of the iterator makes the guard do
SourceResult(e) ==
  CASE e.kind = "item" -> "yield"
    [] e.kind = "stop" -> "return"
    [] e.kind = "raise" -> "raise_source"
    [] e.kind = "raise_timeout" -> "raise_source_timeout"
    [] e.kind = "hang" -> "blocked"

AfterWait_StopNotCaught(e, o) ==
  IF o = "timeout" THEN "raise_idle"
  ELSE IF e.kind = "stop" THEN "raise_source"
  ELSE IF e.kind = "raise_timeout" THEN "raise_idle"
  ELSE SourceResult(e)

AfterWait_TimerIgnored(e, o) ==
  IF e.kind = "raise_timeout" THEN "raise_idle" ELSE SourceResult(e)

\* the try/except around wait_for: o is how the race ended. "except
\* asyncio.TimeoutError" catches the timer's TimeoutError and also one the
\* iterator raised itself, which wait_for lets through
AfterWait(e, o) ==
  IF o = "timeout" THEN "raise_idle"
  ELSE IF e.kind = "raise_timeout" THEN "raise_idle"
  ELSE SourceResult(e)

\* one pass of the guard over the next event: the plain async for when the
\* timeout is None, else one turn of the while loop
GuardNext(e, timeout_seconds) ==
  IF IsNone(timeout_seconds)
  THEN {SourceResult(e)}
  ELSE {AfterWait(e, o) : o \in WaitFor(e, Get(timeout_seconds))}

\* the ticks one pass takes
PassTicks(e, timeout_seconds, r) ==
  IF r = "raise_idle" /\ (e.kind = "hang" \/ e.delay > Get(timeout_seconds))
  THEN Get(timeout_seconds)
  ELSE e.delay

ReportedSeconds_Elapsed(timeout_seconds, elapsed) == elapsed

\* the value the IdleTimeoutError message carries
ReportedSeconds(timeout_seconds, elapsed) == Get(timeout_seconds)

GuardInit ==
  /\ g_source \in Sources
  /\ g_timeout \in Timeouts
  /\ g_pos = 0
  /\ g_yielded = <<>>
  /\ g_state = "iterating"
  /\ g_reported = None
  /\ g_elapsed = 0

GuardIdle ==
  /\ g_source = <<>>
  /\ g_timeout = None
  /\ g_pos = 0
  /\ g_yielded = <<>>
  /\ g_state = "unused"
  /\ g_reported = None
  /\ g_elapsed = 0

NoResponse == [kind |-> "none", text |-> <<>>, seconds |-> None]

SessionIdle ==
  /\ s_pc = "unused"
  /\ s_query = "ok"
  /\ response_text = <<>>
  /\ s_display = <<>>
  /\ s_status = "unset"
  /\ s_response = NoResponse

NoOptions == [model |-> None, init_model |-> None, code_model |-> None,
              idle_timeout |-> None]

NoArgs == [model |-> "unset", init_model |-> None, code_model |-> None,
           idle_timeout |-> 0]

MainIdle ==
  /\ main_pc = "unused"
  /\ cli = NoOptions
  /\ args = NoArgs
  /\ main_init_model = "unset"
  /\ main_code_model = "unset"

CodebaseIdle ==
  /\ hec_pc = "unused"
  /\ project_exists = FALSE
  /\ dir_items = <<>>
  /\ hec_pos = 0
  /\ hec_result = FALSE

MetadataIdle ==
  /\ md_entries = {}
  /\ md_calls = <<>>

NoLedger == [state |-> "missing", tests |-> <<>>]

NoBreakdown == [keys |-> {}, by_area |-> <<>>, by_priority |-> <<>>,
                by_status |-> <<>>, by_category |-> <<>>]

ProgressIdle ==
  /\ ledger = NoLedger
  /\ progress_calls = {}
  /\ count_result = <<0, 0>>
  /\ breakdown_result = NoBreakdown

NoSummary == [kind |-> "none", passing |-> 0, total |-> 0]

ProjectIdle ==
  /\ p_pc = "unused"
  /\ md_ledger = NoLedger
  /\ root_ledger = NoLedger
  /\ spec_txt = "missing"
  /\ has_code = FALSE
  /\ p_session_type = "unset"
  /\ summary = NoSummary
  /\ runs = 0

FilesIdle == CodebaseIdle /\ MetadataIdle /\ ProgressIdle /\ ProjectIdle

GuardStep_SessionDeadline ==
  /\ g_state = "iterating"
  /\ g_pos < Len(g_source)
  /\ LET e == g_source[g_pos + 1]
         left == IF IsNone(g_timeout) THEN None ELSE Some(Get(g_timeout) - g_elapsed)
     IN
     \E r \in GuardNext(e, left) :
       /\ r # "blocked"
       /\ g_pos' = g_pos + 1
       /\ g_elapsed' = g_elapsed + PassTicks(e, left, r)
       /\ g_yielded' = IF r = "yield" THEN Append(g_yielded, e.val) ELSE g_yielded
       /\ g_state' = CASE r = "yield" -> "iterating"
                       [] r = "return" -> "ended"
                       [] r = "raise_source" -> "raised"
                       [] r = "raise_source_timeout" -> "raised_timeout"
                       [] r = "raise_idle" -> "idle_timeout"
       /\ g_reported' = IF r = "raise_idle"
                        THEN Some(ReportedSeconds(g_timeout, g_elapsed'))
                        ELSE g_reported
  /\ UNCHANGED <<g_source, g_timeout>>

\* the consumer asks the guard for its next item
GuardStep ==
  /\ g_state = "iterating"
  /\ g_pos < Len(g_source)
  /\ LET e == g_source[g_pos + 1] IN
     \E r \in GuardNext(e, g_timeout) :
       /\ r # "blocked"
       /\ g_pos' = g_pos + 1
       /\ g_elapsed' = g_elapsed + PassTicks(e, g_timeout, r)
       /\ g_yielded' = IF r = "yield" THEN Append(g_yielded, e.val) ELSE g_yielded
       /\ g_state' = CASE r = "yield" -> "iterating"
                       [] r = "return" -> "ended"
                       [] r = "raise_source" -> "raised"
                       [] r = "raise_source_timeout" -> "raised_timeout"
                       [] r = "raise_idle" -> "idle_timeout"
       /\ g_reported' = IF r = "raise_idle"
                        THEN Some(ReportedSeconds(g_timeout, g_elapsed'))
                        ELSE g_reported
  /\ UNCHANGED <<g_source, g_timeout>>

GuardNextStep == GuardStep /\ UNCHANGED <<loopVars, sessionVars, mainVars, fileVars>>

\* ------------------------------------------------------------------------
\* run_agent_session, as the loop sees it: the status it returns
\* ------------------------------------------------------------------------
\* how the guard's consumption of a whole source can end
RECURSIVE GuardEnds(_, _)
GuardEnds(events, timeout_seconds) ==
  IF events = <<>> THEN {"blocked"}
  ELSE UNION {IF r = "yield" THEN GuardEnds(Tail(events), timeout_seconds) ELSE {r} :
                r \in GuardNext(Head(events), timeout_seconds)}

\* the connection of one session: whether client.query succeeds, and what
\* client.receive_response() then produces
FastItem == [kind |-> "item", delay |-> 0, val |-> 1]

SlowItem == [kind |-> "item", delay |-> MaxTimeout + 1, val |-> 2]

Stop == [kind |-> "stop", delay |-> 0, val |-> 0]

Raise == [kind |-> "raise", delay |-> 0, val |-> 0]

RaiseTimeout == [kind |-> "raise_timeout", delay |-> 0, val |-> 0]

Hang == [kind |-> "hang", delay |-> 0, val |-> 0]

SessionSources ==
  {[query |-> "fail", events |-> <<Stop>>],
   [query |-> "ok", events |-> <<Stop>>],
   [query |-> "ok", events |-> <<FastItem, Stop>>],
   [query |-> "ok", events |-> <<FastItem, SlowItem, Stop>>],
   [query |-> "ok", events |-> <<FastItem, Hang>>],
   [query |-> "ok", events |-> <<FastItem, Raise>>],
   [query |-> "ok", events |-> <<FastItem, RaiseTimeout>>]}

\* the statuses run_agent_session can return on a connection ("blocked":
\* it does not return)
SessionStatuses(src, timeout_seconds) ==
  IF src.query = "fail" THEN {"error"}
  ELSE {CASE r = "return" -> "continue"
          [] r = "raise_idle" -> "idle_timeout"
          [] r = "raise_source" -> "error"
          [] r = "raise_source_timeout" -> "error"
          [] r = "blocked" -> "blocked" :
        r \in GuardEnds(src.events, timeout_seconds)}

\* ------------------------------------------------------------------------
\* run_autonomous_agent
\* ------------------------------------------------------------------------
init_model == "init_model"

code_model == "code_model"

MaxIterationsValues == {None} \cup {Some(n) : n \in (-1)..MaxMaxIterations}

QuitOnAbortValues == {None} \cup {Some(n) : n \in 0..MaxThreshold}

IdleTimeoutValues == {None, Some(0), Some(MaxTimeout)}

LoopInit ==
  /\ pc = "startup"
  /\ max_iterations \in MaxIterationsValues
  /\ idle_timeout \in IdleTimeoutValues
  /\ quit_on_abort \in QuitOnAbortValues
  /\ tests_file_exists \in BOOLEAN
  /\ has_code_entries \in BOOLEAN
  /\ spec_txt_exists \in BOOLEAN
  /\ is_first_run = FALSE
  /\ has_existing_code = FALSE
  /\ session_type = "unset"
  /\ iteration = 0
  /\ consecutive_failures = 0
  /\ prompt = "unset"
  /\ current_model = "unset"
  /\ client_open = FALSE
  /\ clients_created = 0
  /\ open_clients = {}
  /\ status = "unset"
  /\ reason = "running"
  /\ sessions = <<>>
  /\ outcomes = <<>>
  /\ interrupted = FALSE

SelectSessionType_Swapped(first_run, existing_code) ==
  IF first_run /\ existing_code THEN "initializer"
  ELSE IF first_run /\ ~existing_code THEN "onboarding"
  ELSE "coding"

\* the session type chosen from the two startup signals
SelectSessionType(first_run, existing_code) ==
  IF first_run /\ existing_code THEN "onboarding"
  ELSE IF first_run /\ ~existing_code THEN "initializer"
  ELSE "coding"

\* a startup that writes an empty ledger next to the copied spec
Startup_WritesLedger ==
  /\ pc = "startup"
  /\ has_existing_code' = has_code_entries
  /\ is_first_run' = ~tests_file_exists
  /\ session_type' = SelectSessionType(is_first_run', has_existing_code')
  /\ spec_txt_exists' = (spec_txt_exists \/ session_type' = "initializer")
  /\ tests_file_exists' = (tests_file_exists \/ session_type' = "initializer")
  /\ iteration' = 0
  /\ consecutive_failures' = 0
  /\ pc' = "top"
  /\ UNCHANGED <<interrupted, max_iterations, idle_timeout, quit_on_abort,
                 has_code_entries, prompt, current_model, client_open, clients_created, open_clients, status,
                 reason, sessions, outcomes>>

\* the part of run_autonomous_agent before the main loop
Startup ==
  /\ pc = "startup"
  /\ has_existing_code' = has_code_entries
  /\ is_first_run' = ~tests_file_exists
  /\ session_type' = SelectSessionType(is_first_run', has_existing_code')
  /\ spec_txt_exists' = (spec_txt_exists \/ session_type' = "initializer")
  /\ iteration' = 0
  /\ consecutive_failures' = 0
  /\ pc' = "top"
  /\ UNCHANGED <<interrupted, max_iterations, idle_timeout, quit_on_abort, tests_file_exists,
                 has_code_entries, prompt, current_model, client_open, clients_created, open_clients, status,
                 reason, sessions, outcomes>>

MaxIterationsReached_Early(max_iter, iter) == Truthy(max_iter) /\ iter >= Get(max_iter)

\* "if max_iterations and iteration > max_iterations"
MaxIterationsReached(max_iter, iter) == Truthy(max_iter) /\ iter > Get(max_iter)

PromptFor(stype) ==
  CASE stype = "initializer" -> "initializer"
    [] stype = "onboarding" -> "onboarding"
    [] OTHER -> "coding"

ModelFor_AlwaysInit(stype) == init_model

ModelFor_OnboardingUsesCode(stype) ==
  CASE stype = "initializer" -> init_model
    [] OTHER -> code_model

ModelFor(stype) ==
  CASE stype = "initializer" -> init_model
    [] stype = "onboarding" -> init_model
    [] OTHER -> code_model

NextSessionType_Stay(stype) == stype

NextSessionType_AfterOnboarding(stype) ==
  IF stype = "onboarding" THEN "onboarding" ELSE "coding"

\* the session type after the prompt of a session has been chosen
NextSessionType(stype) == "coding"

\* top of a cycle: count the iteration, check the limit, choose prompt and model
TopOfCycle ==
  /\ pc = "top"
  /\ iteration < MaxIteration
  /\ iteration' = iteration + 1
  /\ IF MaxIterationsReached(max_iterations, iteration')
     THEN /\ pc' = "done"
          /\ reason' = "MaxIterations"
          /\ UNCHANGED <<prompt, current_model, session_type>>
     ELSE /\ prompt' = PromptFor(session_type)
          /\ current_model' = ModelFor(session_type)
          /\ session_type' = NextSessionType(session_type)
          /\ pc' = "acquire"
          /\ UNCHANGED reason
  /\ UNCHANGED <<interrupted, max_iterations, idle_timeout, quit_on_abort, tests_file_exists,
                 has_code_entries, spec_txt_exists, is_first_run, has_existing_code,
                 consecutive_failures, client_open, clients_created, open_clients, status, sessions, outcomes>>

\* leaving "async with client" on some exit path: the client is disconnected
Released_OnlyOnContinue(open, client, exit) ==
  IF exit = "continue" THEN open \ {client} ELSE open

Released_NotOnInterrupt(open, client, exit) ==
  IF exit = "interrupt" THEN open ELSE open \ {client}

Released(open, client, exit) == open \ {client}

\* create_client and entering "async with client"; the session starts
AcquireClient ==
  /\ pc = "acquire"
  /\ clients_created' = clients_created + 1
  /\ open_clients' = open_clients \cup {clients_created'}
  /\ client_open' = TRUE
  /\ sessions' = Append(sessions, [iteration |-> iteration, prompt |-> prompt,
                                   model |-> current_model,
                                   client |-> clients_created'])
  /\ pc' = "session"
  /\ UNCHANGED <<interrupted, max_iterations, idle_timeout, quit_on_abort, tests_file_exists,
                 has_code_entries, spec_txt_exists, is_first_run, has_existing_code,
                 session_type, iteration, consecutive_failures, prompt,
                 current_model, status, reason, outcomes>>

\* the session itself counts its failure, before the evaluation does
RunSession_CountsFailure ==
  /\ pc = "session"
  /\ \E src \in SessionSources : \E st \in SessionStatuses(src, idle_timeout) :
       /\ st # "blocked"
       /\ status' = st
  /\ open_clients' = Released(open_clients, clients_created, status')
  /\ client_open' = (clients_created \in open_clients')
  /\ UNCHANGED clients_created
  /\ pc' = "evaluate"
  /\ consecutive_failures' = IF status' = "continue" THEN consecutive_failures
                             ELSE consecutive_failures + 1
  /\ UNCHANGED <<interrupted, max_iterations, idle_timeout, quit_on_abort, tests_file_exists,
                 has_code_entries, spec_txt_exists, is_first_run, has_existing_code,
                 session_type, iteration, prompt,
                 current_model, reason, sessions, outcomes>>

\* run_agent_session returns and the "async with" block is left
RunSession ==
  /\ pc = "session"
  /\ \E src \in SessionSources : \E st \in SessionStatuses(src, idle_timeout) :
       /\ st # "blocked"
       /\ status' = st
  /\ open_clients' = Released(open_clients, clients_created, status')
  /\ client_open' = (clients_created \in open_clients')
  /\ UNCHANGED clients_created
  /\ pc' = "evaluate"
  /\ UNCHANGED <<interrupted, max_iterations, idle_timeout, quit_on_abort, tests_file_exists,
                 has_code_entries, spec_txt_exists, is_first_run, has_existing_code,
                 session_type, iteration, consecutive_failures, prompt,
                 current_model, reason, sessions, outcomes>>

CountFailures_ErrorNotCounted(failures, st) ==
  CASE st = "continue" -> 0
    [] st = "idle_timeout" -> failures + 1
    [] OTHER -> failures

\* the failure counter after a status
CountFailures(failures, st) ==
  CASE st = "continue" -> 0
    [] st = "idle_timeout" -> failures + 1
    [] st = "error" -> failures + 1
    [] OTHER -> failures

ShouldQuit_Late(quit, failures, st) ==
  /\ st \in {"idle_timeout", "error"}
  /\ Truthy(quit)
  /\ failures > Get(quit)

ShouldQuit_ZeroIsThreshold(quit, failures, st) ==
  /\ st \in {"idle_timeout", "error"}
  /\ ~IsNone(quit)
  /\ failures >= Get(quit)

ShouldQuit_OnlyOnIdleTimeout(quit, failures, st) ==
  /\ st = "idle_timeout"
  /\ Truthy(quit)
  /\ failures >= Get(quit)

\* "if quit_on_abort and consecutive_failures >= quit_on_abort"
ShouldQuit(quit, failures, st) ==
  /\ st \in {"idle_timeout", "error"}
  /\ Truthy(quit)
  /\ failures >= Get(quit)

\* the outcome is handled, but the loop goes on without the delay
EvaluateOutcome_NoDelay ==
  /\ pc = "evaluate"
  /\ consecutive_failures' = CountFailures(consecutive_failures, status)
  /\ outcomes' = Append(outcomes, status)
  /\ IF ShouldQuit(quit_on_abort, consecutive_failures', status)
     THEN pc' = "done" /\ reason' = "FailureThreshold"
     ELSE pc' = "top" /\ UNCHANGED reason
  /\ UNCHANGED <<interrupted, max_iterations, idle_timeout, quit_on_abort, tests_file_exists,
                 has_code_entries, spec_txt_exists, is_first_run, has_existing_code,
                 session_type, iteration, prompt, current_model, client_open,
                 clients_created, open_clients, status, sessions>>

EvaluateOutcome_LimitFirst ==
  /\ pc = "evaluate"
  /\ consecutive_failures' = CountFailures(consecutive_failures, status)
  /\ outcomes' = Append(outcomes, status)
  /\ IF Truthy(max_iterations) /\ iteration >= Get(max_iterations)
     THEN pc' = "done" /\ reason' = "MaxIterations"
     ELSE IF ShouldQuit(quit_on_abort, consecutive_failures', status)
     THEN pc' = "done" /\ reason' = "FailureThreshold"
     ELSE pc' = "sleep" /\ UNCHANGED reason
  /\ UNCHANGED <<interrupted, max_iterations, idle_timeout, quit_on_abort, tests_file_exists,
                 has_code_entries, spec_txt_exists, is_first_run, has_existing_code,
                 session_type, iteration, prompt, current_model, client_open,
                 clients_created, open_clients, status, sessions>>

\* "Handle status and track failures", up to the break or the sleep
EvaluateOutcome ==
  /\ pc = "evaluate"
  /\ consecutive_failures' = CountFailures(consecutive_failures, status)
  /\ outcomes' = Append(outcomes, status)
  /\ IF ShouldQuit(quit_on_abort, consecutive_failures', status)
     THEN pc' = "done" /\ reason' = "FailureThreshold"
     ELSE pc' = "sleep" /\ UNCHANGED reason
  /\ UNCHANGED <<interrupted, max_iterations, idle_timeout, quit_on_abort, tests_file_exists,
                 has_code_entries, spec_txt_exists, is_first_run, has_existing_code,
                 session_type, iteration, prompt, current_model, client_open,
                 clients_created, open_clients, status, sessions>>

\* "if max_iterations is None or iteration < max_iterations"
PreparesNext(max_iter, iter) == IsNone(max_iter) \/ iter < Get(max_iter)

\* asyncio.sleep(AUTO_CONTINUE_DELAY_SECONDS) is over
SleepDone ==
  /\ pc = "sleep"
  /\ pc' = IF PreparesNext(max_iterations, iteration) THEN "prepare" ELSE "top"
  /\ UNCHANGED <<interrupted, max_iterations, idle_timeout, quit_on_abort, tests_file_exists,
                 has_code_entries, spec_txt_exists, is_first_run, has_existing_code,
                 session_type, iteration, consecutive_failures, prompt,
                 current_model, client_open, clients_created, open_clients, status,
                 reason, sessions, outcomes>>

\* the "small delay between sessions" is over
PrepareDone ==
  /\ pc = "prepare"
  /\ pc' = "top"
  /\ UNCHANGED <<interrupted, max_iterations, idle_timeout, quit_on_abort, tests_file_exists,
                 has_code_entries, spec_txt_exists, is_first_run, has_existing_code,
                 session_type, iteration, consecutive_failures, prompt,
                 current_model, client_open, clients_created, open_clients, status,
                 reason, sessions, outcomes>>

\* the steps of an iteration that come before the session
SetupStages == {"prompt", "create_client", "connect"}

InsideSessionTry_ConnectToo(stage) == stage \in {"connect", "query", "stream"}

\* the steps that the "try" of run_agent_session encloses
InsideSessionTry(stage) == stage \in {"query", "stream"}

\* reading the prompt file of the phase raises: the exception leaves the loop
PromptFails ==
  /\ pc = "top"
  /\ iteration < MaxIteration
  /\ ~MaxIterationsReached(max_iterations, iteration + 1)
  /\ iteration' = iteration + 1
  /\ IF InsideSessionTry("prompt")
     THEN pc' = "evaluate" /\ status' = "error" /\ UNCHANGED reason
     ELSE pc' = "done" /\ reason' = "FatalError" /\ UNCHANGED status
  /\ UNCHANGED <<interrupted, max_iterations, idle_timeout, quit_on_abort, tests_file_exists,
                 has_code_entries, spec_txt_exists, is_first_run, has_existing_code,
                 session_type, consecutive_failures, prompt, current_model,
                 client_open, clients_created, open_clients, sessions, outcomes>>

\* create_client raises, or the client is created and entering
\* "async with client" raises: no connection is open, no session starts
ClientFails ==
  /\ pc = "acquire"
  /\ \E stage \in {"create_client", "connect"} :
       /\ clients_created' = IF stage = "connect" THEN clients_created + 1
                             ELSE clients_created
       /\ IF InsideSessionTry(stage)
          THEN pc' = "evaluate" /\ status' = "error" /\ UNCHANGED reason
          ELSE pc' = "done" /\ reason' = "FatalError" /\ UNCHANGED status
  /\ UNCHANGED <<interrupted, max_iterations, idle_timeout, quit_on_abort, tests_file_exists,
                 has_code_entries, spec_txt_exists, is_first_run, has_existing_code,
                 session_type, iteration, consecutive_failures, prompt,
                 current_model, client_open, open_clients, sessions, outcomes>>

\* what an interrupt raises where the program awaits: Ctrl-C, or the
\* cancellation of the task
Interrupts == {"KeyboardInterrupt", "CancelledError"}

\* the exception classes that derive from Exception
ExceptionClasses == {"Exception", "IdleTimeoutError", "TimeoutError", "RuntimeError"}

SessionCatches_BareExcept(ex) == TRUE

\* "except IdleTimeoutError" and "except Exception" of run_agent_session
SessionCatches(ex) == ex \in ExceptionClasses

\* KeyboardInterrupt while the loop is suspended in an await
Interrupt ==
  /\ pc \in {"session", "sleep", "prepare"}
  /\ \E ex \in Interrupts :
       IF pc = "session" /\ SessionCatches(ex)
       THEN /\ pc' = "evaluate"
            /\ status' = "error"
            /\ open_clients' = Released(open_clients, clients_created, "error")
            /\ UNCHANGED reason
       ELSE /\ pc' = "done"
            /\ reason' = "ExternalInterrupt"
            /\ open_clients' = Released(open_clients, clients_created, "interrupt")
            /\ UNCHANGED status
  /\ client_open' = (clients_created \in open_clients')
  /\ interrupted' = TRUE
  /\ UNCHANGED clients_created
  /\ UNCHANGED <<max_iterations, idle_timeout, quit_on_abort, tests_file_exists,
                 has_code_entries, spec_txt_exists, is_first_run, has_existing_code,
                 session_type, iteration, consecutive_failures, prompt,
                 current_model, sessions, outcomes>>

\* the agent, at work in a session, writes the ledger or source files
ProjectChanges ==
  /\ pc = "session"
  /\ \/ tests_file_exists' = TRUE /\ ~tests_file_exists /\ UNCHANGED has_code_entries
     \/ has_code_entries' = TRUE /\ ~has_code_entries /\ UNCHANGED tests_file_exists
  /\ UNCHANGED <<interrupted, pc, max_iterations, idle_timeout, quit_on_abort, spec_txt_exists,
                 is_first_run, has_existing_code, session_type, iteration,
                 consecutive_failures, prompt, current_model, client_open, clients_created, open_clients, status,
                 reason, sessions, outcomes>>

Init == LoopInit /\ GuardIdle /\ SessionIdle /\ MainIdle /\ FilesIdle

Next ==
  \/ Startup /\ UNCHANGED <<guardVars, sessionVars, mainVars, fileVars>>
  \/ TopOfCycle /\ UNCHANGED <<guardVars, sessionVars, mainVars, fileVars>>
  \/ AcquireClient /\ UNCHANGED <<guardVars, sessionVars, mainVars, fileVars>>
  \/ RunSession /\ UNCHANGED <<guardVars, sessionVars, mainVars, fileVars>>
  \/ EvaluateOutcome /\ UNCHANGED <<guardVars, sessionVars, mainVars, fileVars>>
  \/ SleepDone /\ UNCHANGED <<guardVars, sessionVars, mainVars, fileVars>>
  \/ PrepareDone /\ UNCHANGED <<guardVars, sessionVars, mainVars, fileVars>>
  \/ Interrupt /\ UNCHANGED <<guardVars, sessionVars, mainVars, fileVars>>
  \/ PromptFails /\ UNCHANGED <<guardVars, sessionVars, mainVars, fileVars>>
  \/ ClientFails /\ UNCHANGED <<guardVars, sessionVars, mainVars, fileVars>>
  \/ ProjectChanges /\ UNCHANGED <<guardVars, sessionVars, mainVars, fileVars>>

Spec == Init /\ [][Next]_vars

\* the guard alone, over every bounded source and timeout
LoopIdle ==
  /\ pc = "unused"
  /\ max_iterations = None
  /\ idle_timeout = None
  /\ quit_on_abort = None
  /\ tests_file_exists = FALSE
  /\ has_code_entries = FALSE
  /\ spec_txt_exists = FALSE
  /\ is_first_run = FALSE
  /\ has_existing_code = FALSE
  /\ session_type = "unset"
  /\ iteration = 0
  /\ consecutive_failures = 0
  /\ prompt = "unset"
  /\ current_model = "unset"
  /\ client_open = FALSE
  /\ clients_created = 0
  /\ open_clients = {}
  /\ status = "unset"
  /\ reason = "running"
  /\ sessions = <<>>
  /\ outcomes = <<>>
  /\ interrupted = FALSE

InitGuard == LoopIdle /\ GuardInit /\ SessionIdle /\ MainIdle /\ FilesIdle

NextGuard == GuardNextStep

SpecGuard == InitGuard /\ [][NextGuard]_vars

\* ------------------------------------------------------------------------
\* Properties of the orchestration loop
\* ------------------------------------------------------------------------
IsFailure(st) == st \in {"idle_timeout", "error"}

\* the number of failures at the end of a sequence of statuses
RECURSIVE TrailingFailures(_)
TrailingFailures(sts) ==
  IF sts = <<>> THEN 0
  ELSE IF IsFailure(sts[Len(sts)])
       THEN 1 + TrailingFailures(SubSeq(sts, 1, Len(sts) - 1))
       ELSE 0

\* C1: after any sequence of evaluated outcomes, consecutive_failures is the
\* number of idle_timeout/error outcomes since the last continue (or since
\* the start): 0 right after a continue, one more after each failure.
C1_FailureCount == consecutive_failures = TrailingFailures(outcomes)

C1_Witness ==
  /\ outcomes = <<"continue", "error", "error", "continue", "error">>
  /\ consecutive_failures = 1

ThresholdSet == ~IsNone(quit_on_abort) /\ Get(quit_on_abort) >= 1

\* C2: with a threshold T >= 1 the loop ends with reason FailureThreshold
\* exactly when the T-th consecutive failure (of either kind) has been
\* evaluated, never earlier, and starts no session afterwards.
C2_ThresholdTerminates ==
  ThresholdSet =>
    /\ (reason = "FailureThreshold") <=> (TrailingFailures(outcomes) >= Get(quit_on_abort))
    /\ reason = "FailureThreshold" =>
         /\ TrailingFailures(outcomes) = Get(quit_on_abort)
         /\ pc = "done"
         /\ Len(sessions) = Len(outcomes)
         /\ ~client_open

C2_Witness ==
  /\ quit_on_abort = Some(3)
  /\ reason = "FailureThreshold"
  /\ outcomes = <<"error", "continue", "error", "idle_timeout", "error">>

ThresholdDisabled == IsNone(quit_on_abort) \/ Get(quit_on_abort) = 0

\* C3: with the threshold None or 0 no run of failures ends the loop with
\* reason FailureThreshold: the evaluation of a failed session always goes
\* on to the delay before the next session.
C3_DisabledThresholdNeverQuits ==
  [][ThresholdDisabled =>
       /\ reason' # "FailureThreshold"
       /\ (pc = "evaluate" /\ IsFailure(status)) => (pc' = "sleep" /\ reason' = "running")]_vars

C3_Witness ==
  /\ quit_on_abort = Some(0)
  /\ TrailingFailures(outcomes) = 4
  /\ Len(sessions) = 5
  /\ pc = "session"

MaxIterationsSet == ~IsNone(max_iterations) /\ Get(max_iterations) >= 1

\* C4: with max-iterations N >= 1, the sessions run are those of iterations
\* 1..N; at the top of cycle N+1 the loop ends with reason MaxIterations
\* without a connection or a session for iteration N+1.
C4_MaxIterations ==
  MaxIterationsSet =>
    /\ \A i \in DOMAIN sessions :
         sessions[i].iteration = i /\ i <= Get(max_iterations)
    /\ iteration > Get(max_iterations) =>
         (pc = "done" /\ reason = "MaxIterations" /\ iteration = Get(max_iterations) + 1)
    /\ reason = "MaxIterations" =>
         /\ iteration = Get(max_iterations) + 1
         /\ Len(sessions) = Get(max_iterations)
         /\ Len(outcomes) = Get(max_iterations)
         /\ ~client_open
         /\ pc = "done"

C4_Witness ==
  /\ max_iterations = Some(2)
  /\ reason = "MaxIterations"
  /\ Len(sessions) = 2

\* C5: whenever a max-iteration count M is supplied, no session is run for
\* an iteration number greater than M.
C5_NoSessionBeyondMax ==
  ~IsNone(max_iterations) =>
    \A i \in DOMAIN sessions : sessions[i].iteration <= Get(max_iterations)

\* the phase the two startup signals select
SelectedPhase(hasPriorProgress, hasExistingContent) ==
  IF hasPriorProgress THEN "coding"
  ELSE IF hasExistingContent THEN "onboarding"
  ELSE "initializer"

\* C6: the initial phase is a function of the two startup signals alone:
\* prior progress selects coding; no prior progress selects onboarding when
\* the directory has content and initializer when it has none.
C6_PhaseSelection ==
  /\ (pc = "top" /\ iteration = 0) =>
       session_type = SelectedPhase(tests_file_exists, has_code_entries)
  /\ pc # "startup" =>
       /\ session_type \in {"initializer", "onboarding", "coding"}
       /\ sessions # <<>> =>
            sessions[1].prompt = SelectedPhase(~is_first_run, has_existing_code)

C6_Witness ==
  /\ pc = "top"
  /\ iteration = 0
  /\ ~tests_file_exists
  /\ has_code_entries
  /\ session_type = "onboarding"

\* C7: a loop that starts as initializer or onboarding runs its second
\* iteration with the coding prompt and the coding model, whatever the
\* status of the first session.
C7_SecondIterationCoding ==
  (Len(sessions) >= 2 /\ sessions[1].prompt \in {"initializer", "onboarding"}) =>
    /\ sessions[2].iteration = 2
    /\ sessions[2].prompt = "coding"
    /\ sessions[2].model = code_model

C7_Witness ==
  /\ Len(sessions) >= 2
  /\ sessions[1].prompt = "initializer"
  /\ outcomes[1] = "idle_timeout"

\* C8: coding is stable: once the session type is coding it stays coding,
\* only the session of iteration 1 can be an initializer or onboarding
\* session, and the startup signals are read once: a change of the ledger or
\* of the directory during the run changes neither them nor the phase.
C8_CodingStable ==
  /\ [](\A i \in DOMAIN sessions : i > 1 => sessions[i].prompt = "coding")
  /\ [][/\ session_type = "coding" => session_type' = "coding"
        /\ pc # "startup" => UNCHANGED <<is_first_run, has_existing_code>>
        /\ (tests_file_exists' # tests_file_exists \/ has_code_entries' # has_code_entries)
             => UNCHANGED session_type]_vars

C8_Witness ==
  /\ Len(sessions) >= 3
  /\ sessions[1].prompt = "initializer"
  /\ is_first_run
  /\ tests_file_exists
  /\ ~has_existing_code
  /\ has_code_entries

\* ------------------------------------------------------------------------
\* Properties of the idle-timeout guard
\* ------------------------------------------------------------------------
Min(a, b) == IF a < b THEN a ELSE b

\* the values of the first n events of the source
FirstVals(n) == [i \in 1..n |-> g_source[i].val]

\* the number of items of the source
NumItems == Cardinality({i \in DOMAIN g_source : g_source[i].kind = "item"})

\* a deadline is configured and every item, and the end of the stream,
\* arrives before it
AllInTime ==
  /\ ~IsNone(g_timeout)
  /\ g_source[Len(g_source)].kind = "stop"
  /\ \A i \in DOMAIN g_source : g_source[i].delay < Get(g_timeout)

\* C9: with a deadline, a source of N items whose items and end all arrive
\* before the deadline is yielded whole and in order, and the guard then
\* ends normally without raising.
C9_FastSourceYieldsAll ==
  AllInTime =>
    /\ g_state \in {"iterating", "ended"}
    /\ g_yielded = FirstVals(Min(g_pos, NumItems))
    /\ g_state = "iterating" => (g_pos <= NumItems /\ ENABLED GuardStep)
    /\ g_state = "ended" => (g_pos = NumItems + 1 /\ Len(g_yielded) = NumItems)

C9_Witness ==
  /\ AllInTime
  /\ g_state = "ended"
  /\ Len(g_yielded) = MaxItems
  /\ g_elapsed > Get(g_timeout)

\* the answer to the request after k items comes later than the deadline
Stalls(e) == e.kind = "hang" \/ e.delay > Get(g_timeout)

\* a deadline is configured and the source delivers k items in time, then
\* stalls for longer than the deadline
StallsAfter(k) ==
  /\ ~IsNone(g_timeout)
  /\ k < Len(g_source)
  /\ \A i \in 1..k : g_source[i].kind = "item" /\ g_source[i].delay < Get(g_timeout)
  /\ Stalls(g_source[k + 1])

\* C10: with a deadline D, a source that stalls for longer than D after k
\* items is yielded up to those k items, in order, and the guard then fails
\* with an idle timeout that reports D, not the time elapsed in all.
C10_StallTimesOut ==
  \A k \in 0..MaxItems :
    StallsAfter(k) =>
      /\ g_pos <= k => (g_state = "iterating" /\ g_yielded = FirstVals(g_pos)
                         /\ ENABLED GuardStep)
      /\ g_pos > k =>
           /\ g_pos = k + 1
           /\ g_state = "idle_timeout"
           /\ g_yielded = FirstVals(k)
           /\ g_reported = Some(Get(g_timeout))

C10_Witness ==
  /\ StallsAfter(MaxItems)
  /\ g_state = "idle_timeout"
  /\ Len(g_yielded) = MaxItems
  /\ g_elapsed > Get(g_timeout)
  /\ g_reported = g_timeout

\* the ticks the first n events of the source take
RECURSIVE SumDelays(_)
SumDelays(n) == IF n = 0 THEN 0 ELSE SumDelays(n - 1) + g_source[n].delay

\* how the raw iterator ends once its last event has been consumed
RawEnd ==
  CASE g_source[Len(g_source)].kind = "stop" -> "ended"
    [] g_source[Len(g_source)].kind = "raise" -> "raised"
    [] g_source[Len(g_source)].kind = "raise_timeout" -> "raised_timeout"
    [] OTHER -> "iterating"

\* C11: with the deadline None the guard is the raw iterator: the same
\* items in the same order, the same end (normal, or the iterator's own
\* failure), no latency added, blocked exactly where the iterator hangs, and
\* never an idle timeout however long an event takes.
C11_NoDeadlinePassThrough ==
  IsNone(g_timeout) =>
    /\ g_state # "idle_timeout"
    /\ g_reported = None
    /\ g_yielded = FirstVals(Min(g_pos, NumItems))
    /\ g_elapsed = SumDelays(g_pos)
    /\ g_state = IF g_pos = Len(g_source) THEN RawEnd ELSE "iterating"
    /\ g_pos < Len(g_source) =>
         (ENABLED GuardStep <=> g_source[g_pos + 1].kind # "hang")

C11_Witness ==
  /\ IsNone(g_timeout)
  /\ g_state = "raised"
  /\ Len(g_yielded) = MaxItems
  /\ \A i \in DOMAIN g_source : g_source[i].delay = MaxDelay

\* every wait answered so far was for an item or the end of the stream and
\* was shorter than the deadline
WaitsInTime ==
  /\ ~IsNone(g_timeout)
  /\ \A i \in 1..g_pos :
       g_source[i].kind \in {"item", "stop"} /\ g_source[i].delay < Get(g_timeout)

\* C12: the timer runs per request, not per session: as long as every wait
\* for an item or for the end of the stream is shorter than the deadline the
\* guard has not timed out, whatever the time elapsed in all.
C12_TimerPerItem ==
  WaitsInTime =>
    /\ g_state \in {"iterating", "ended"}
    /\ g_yielded = FirstVals(Min(g_pos, NumItems))

C12_Witness ==
  /\ WaitsInTime
  /\ g_state = "ended"
  /\ g_elapsed = (MaxItems + 1) * (Get(g_timeout) - 1)
  /\ g_elapsed > Get(g_timeout)

\* C13: a failure the iterator raises while the guard awaits the next item
\* leaves the guard unchanged, whatever its kind: it is neither turned into
\* an idle timeout nor taken for the end of the stream.
C13_SourceFailurePropagates ==
  (/\ g_pos >= 1
   /\ g_source[g_pos].kind \in {"raise", "raise_timeout"}
   /\ (IsNone(g_timeout) \/ g_source[g_pos].delay < Get(g_timeout)))
  => g_state = IF g_source[g_pos].kind = "raise" THEN "raised" ELSE "raised_timeout"

\* ------------------------------------------------------------------------
\* run_agent_session, step by step
\* ------------------------------------------------------------------------
\* largest number of messages a response stream delivers
MaxMessages == 2

\* characters of a tool input, and of an error result, that are printed
InputShown == 200

ErrorShown == 500

TextBlock(t) ==
  [btype |-> "TextBlock", text |-> t, name |-> <<>>, content |-> <<>>,
   is_error |-> FALSE, len |-> Len(t)]

ToolUseBlock(n, l) ==
  [btype |-> "ToolUseBlock", text |-> <<>>, name |-> n, content |-> <<>>,
   is_error |-> FALSE, len |-> l]

ToolResultBlock(c, err, l) ==
  [btype |-> "ToolResultBlock", text |-> <<>>, name |-> <<>>, content |-> c,
   is_error |-> err, len |-> l]

Message(t, blocks) == [type |-> t, content |-> blocks]

\* the messages a response stream is made of
Messages ==
  {Message("AssistantMessage", <<TextBlock(<<"a">>)>>),
   Message("AssistantMessage",
           <<TextBlock(<<"b">>), ToolUseBlock(<<"Bash">>, InputShown + 1),
             TextBlock(<<"c">>)>>),
   Message("UserMessage",
           <<ToolResultBlock(<<"Blocked">>, TRUE, 7),
             ToolResultBlock(<<"was", "BLOCKED">>, FALSE, 11)>>),
   Message("UserMessage",
           <<ToolResultBlock(<<"boom">>, TRUE, ErrorShown + 1),
             ToolResultBlock(<<"fine">>, FALSE, 4)>>),
   Message("ResultMessage", <<>>)}

MessageEvents == [kind : {"item"}, delay : {0, MaxDelay}, val : Messages]

StreamEnds == [kind : {"stop", "raise", "raise_timeout"}, delay : {0, MaxDelay}, val : {0}]
                \cup {[kind |-> "hang", delay |-> 0, val |-> 0]}

Streams == {ms \o <<f>> : ms \in SeqsUpTo(MessageEvents, MaxMessages), f \in StreamEnds}

\* str.lower() of a word
Lower(w) ==
  CASE w = "Blocked" -> "blocked"
    [] w = "BLOCKED" -> "blocked"
    [] OTHER -> w

\* "blocked" in str(result_content).lower()
ContainsBlocked(c) == \E i \in DOMAIN c : Lower(c[i]) = "blocked"

Shown(what, val, n) == [what |-> what, val |-> val, shown |-> n]

AtMost(n, limit) == IF n > limit THEN limit ELSE n

BlockText_ToolNameToo(mtype, b) ==
  IF mtype = "AssistantMessage" /\ b.btype = "TextBlock" THEN b.text
  ELSE IF mtype = "AssistantMessage" /\ b.btype = "ToolUseBlock" THEN b.name
  ELSE <<>>

\* what one block adds to response_text
BlockText(mtype, b) ==
  IF mtype = "AssistantMessage" /\ b.btype = "TextBlock" THEN b.text ELSE <<>>

BlockDisplay_ErrorFirst(mtype, b) ==
  IF mtype = "AssistantMessage" /\ b.btype = "TextBlock"
    THEN <<Shown("text", b.text, b.len)>>
  ELSE IF mtype = "AssistantMessage" /\ b.btype = "ToolUseBlock"
    THEN <<Shown("tool", b.name, 0),
           Shown(IF b.len > InputShown THEN "input_cut" ELSE "input", <<>>,
                 AtMost(b.len, InputShown))>>
  ELSE IF mtype = "UserMessage" /\ b.btype = "ToolResultBlock"
    THEN IF b.is_error THEN <<Shown("error", b.content, AtMost(b.len, ErrorShown))>>
         ELSE IF ContainsBlocked(b.content) THEN <<Shown("blocked", b.content, b.len)>>
         ELSE <<Shown("done", <<>>, 0)>>
  ELSE <<>>

\* what is printed for one block
BlockDisplay(mtype, b) ==
  IF mtype = "AssistantMessage" /\ b.btype = "TextBlock"
    THEN <<Shown("text", b.text, b.len)>>
  ELSE IF mtype = "AssistantMessage" /\ b.btype = "ToolUseBlock"
    THEN <<Shown("tool", b.name, 0),
           Shown(IF b.len > InputShown THEN "input_cut" ELSE "input", <<>>,
                 AtMost(b.len, InputShown))>>
  ELSE IF mtype = "UserMessage" /\ b.btype = "ToolResultBlock"
    THEN IF ContainsBlocked(b.content) THEN <<Shown("blocked", b.content, b.len)>>
         ELSE IF b.is_error THEN <<Shown("error", b.content, AtMost(b.len, ErrorShown))>>
         ELSE <<Shown("done", <<>>, 0)>>
  ELSE <<>>

\* the body of the "async for msg" loop, block by block
RECURSIVE MessageText(_, _)
MessageText(mtype, blocks) ==
  IF blocks = <<>> THEN <<>>
  ELSE BlockText(mtype, Head(blocks)) \o MessageText(mtype, Tail(blocks))

RECURSIVE MessageDisplay_LastBlockFirst(_, _)
MessageDisplay_LastBlockFirst(mtype, blocks) ==
  IF blocks = <<>> THEN <<>>
  ELSE MessageDisplay_LastBlockFirst(mtype, Tail(blocks)) \o BlockDisplay(mtype, Head(blocks))

RECURSIVE MessageDisplay(_, _)
MessageDisplay(mtype, blocks) ==
  IF blocks = <<>> THEN <<>>
  ELSE BlockDisplay(mtype, Head(blocks)) \o MessageDisplay(mtype, Tail(blocks))

\* str(e) of the exception a failed event raises
FailureMessage(kind) == <<kind>>

ErrorResponse(kind) == [kind |-> "error", text |-> FailureMessage(kind), seconds |-> None]

IdleResponse(reported) == [kind |-> "idle_timeout", text |-> <<>>, seconds |-> reported]

TextResponse(t) == [kind |-> "text", text |-> t, seconds |-> None]

StatusOf_IdleIsError(gstate) ==
  CASE gstate = "ended" -> "continue"
    [] OTHER -> "error"

\* the status returned for the way the guarded stream ended
StatusOf(gstate) ==
  CASE gstate = "ended" -> "continue"
    [] gstate = "idle_timeout" -> "idle_timeout"
    [] gstate = "raised" -> "error"
    [] gstate = "raised_timeout" -> "error"

\* what "await client.query(message)" does: it returns, it raises, or the
\* connection does not respond and the await never completes
QueryResults == {"ok", "fail", "hang"}

SessionInit ==
  /\ s_pc = "query"
  /\ s_query \in QueryResults
  /\ response_text = <<>>
  /\ s_display = <<>>
  /\ s_status = "unset"
  /\ s_response = NoResponse
  /\ g_source \in Streams
  /\ g_timeout \in IdleTimeoutValues
  /\ g_pos = 0
  /\ g_yielded = <<>>
  /\ g_state = "unused"
  /\ g_reported = None
  /\ g_elapsed = 0

\* the announcement and "await client.query(message)"
SessionQuery ==
  /\ s_pc = "query"
  /\ s_query # "hang"
  /\ IF s_query = "fail"
     THEN /\ s_pc' = "returned"
          /\ s_status' = "error"
          /\ s_response' = ErrorResponse("query")
          /\ s_display' = s_display \o
               <<Shown(IF Truthy(g_timeout) THEN "sending_with_timeout" ELSE "sending",
                       <<>>, 0),
                 Shown("session_error", FailureMessage("query"), 0)>>
          /\ UNCHANGED <<response_text, g_state>>
     ELSE /\ s_pc' = "stream"
          /\ response_text' = <<>>
          /\ g_state' = "iterating"
          /\ s_display' = Append(s_display,
               Shown(IF Truthy(g_timeout) THEN "sending_with_timeout" ELSE "sending",
                     <<>>, 0))
          /\ UNCHANGED <<s_status, s_response>>
  /\ UNCHANGED <<s_query, g_source, g_timeout, g_pos, g_yielded, g_reported, g_elapsed>>

\* one turn of "async for msg in async_iter_with_timeout(...)": the next
\* message is handled, or the stream has ended and the session returns
SessionStep ==
  /\ s_pc = "stream"
  /\ GuardStep
  /\ IF g_state' = "iterating"
     THEN LET msg == g_source[g_pos'].val IN
          /\ response_text' = response_text \o MessageText(msg.type, msg.content)
          /\ s_display' = s_display \o MessageDisplay(msg.type, msg.content)
          /\ UNCHANGED <<s_pc, s_status, s_response>>
     ELSE /\ s_pc' = "returned"
          /\ s_status' = StatusOf(g_state')
          /\ s_response' =
               CASE s_status' = "continue" -> TextResponse(response_text)
                 [] s_status' = "idle_timeout" -> IdleResponse(g_reported')
                 [] OTHER -> ErrorResponse(g_source[g_pos'].kind)
          /\ s_display' = Append(s_display,
               CASE s_status' = "continue" -> Shown("separator", <<>>, 0)
                 [] s_status' = "idle_timeout" -> Shown("idle_timeout", <<>>, Get(g_reported'))
                 [] OTHER -> Shown("session_error", FailureMessage(g_source[g_pos'].kind), 0))
          /\ UNCHANGED response_text
  /\ UNCHANGED s_query

\* KeyboardInterrupt or cancellation while the session awaits the query or
\* the next message: "except Exception" does not catch it
SessionInterrupt ==
  /\ s_pc \in {"query", "stream"}
  /\ \E ex \in Interrupts :
       IF SessionCatches(ex)
       THEN /\ s_pc' = "returned"
            /\ s_status' = "error"
            /\ s_response' = ErrorResponse(ex)
            /\ s_display' = Append(s_display, Shown("session_error", FailureMessage(ex), 0))
       ELSE /\ s_pc' = "interrupted"
            /\ UNCHANGED <<s_display, s_status, s_response>>
  /\ UNCHANGED <<s_query, response_text, guardVars>>

InitSession == LoopIdle /\ SessionInit /\ MainIdle /\ FilesIdle

NextSession ==
  \/ SessionQuery /\ UNCHANGED <<loopVars, mainVars, fileVars>>
  \/ SessionStep /\ UNCHANGED <<loopVars, mainVars, fileVars>>
  \/ SessionInterrupt /\ UNCHANGED <<loopVars, mainVars, fileVars>>

SpecSession == InitSession /\ [][NextSession]_vars

\* the event loop resumes the session whenever what it awaits has completed
SessionFairness ==
  /\ WF_<<guardVars, sessionVars>>(SessionQuery)
  /\ WF_<<guardVars, sessionVars>>(SessionStep)

SpecSessionLive == SpecSession /\ SessionFairness

\* ------------------------------------------------------------------------
\* main: the command line, the effective models and the call of the agent
\* ------------------------------------------------------------------------
DEFAULT_MODEL == "claude-sonnet-4-5-20250929"

DefaultIdleTimeout == 180

\* model names a user may give; "" is the empty string
ModelNames == {"", "opus", "haiku", DEFAULT_MODEL}

ModelOptions == {None} \cup {Some(m) : m \in ModelNames}

IdleTimeoutOptions == {None} \cup {Some(n) : n \in (-1)..MaxTimeout}

\* parse_args: an option that is not given takes its default
ParsedArgs(options) ==
  [model |-> IF IsNone(options.model) THEN DEFAULT_MODEL ELSE Get(options.model),
   init_model |-> options.init_model,
   code_model |-> options.code_model,
   idle_timeout |-> IF IsNone(options.idle_timeout) THEN DefaultIdleTimeout
                    ELSE Get(options.idle_timeout)]

\* truth value of an Optional[str]: None and "" are false
TruthyStr(o) == ~IsNone(o) /\ Get(o) # ""

\* "--model" wins over a phase's own option
EffectiveModel_ModelFirst(override, model) ==
  IF TruthyStr(override) /\ model = DEFAULT_MODEL THEN Get(override) ELSE model

\* "args.init_model if args.init_model else args.model", and likewise for code
EffectiveModel(override, model) == IF TruthyStr(override) THEN Get(override) ELSE model

\* "idle_timeout=args.idle_timeout if args.idle_timeout > 0 else None"
main_idle_timeout_ZeroKept(n) == IF n >= 0 THEN Some(n) ELSE None

main_idle_timeout(n) == IF n > 0 THEN Some(n) ELSE None

ParseArgs ==
  /\ main_pc = "start"
  /\ args' = ParsedArgs(cli)
  /\ main_pc' = "parsed"
  /\ UNCHANGED <<cli, main_init_model, main_code_model>>

\* "Determine effective models"
ResolveModels ==
  /\ main_pc = "parsed"
  /\ main_init_model' = EffectiveModel(args.init_model, args.model)
  /\ main_code_model' = EffectiveModel(args.code_model, args.model)
  /\ main_pc' = "resolved"
  /\ UNCHANGED <<cli, args>>

\* asyncio.run(run_autonomous_agent(...)): the idle timeout handed over is
\* passed on unchanged to run_agent_session and to the guard
RunAgent ==
  /\ main_pc = "resolved"
  /\ s_pc = "unused"
  /\ main_pc' = "running"
  /\ g_timeout' = main_idle_timeout(args.idle_timeout)
  /\ s_pc' = "query"
  /\ UNCHANGED <<cli, args, main_init_model, main_code_model, s_query,
                 response_text, s_display, s_status, s_response, g_source, g_pos,
                 g_yielded, g_state, g_reported, g_elapsed>>

\* the program started with some idle-timeout option, and one session of it
MainInit ==
  /\ main_pc = "start"
  /\ cli \in [model : {None}, init_model : {None}, code_model : {None},
              idle_timeout : IdleTimeoutOptions]
  /\ args = NoArgs
  /\ main_init_model = "unset"
  /\ main_code_model = "unset"
  /\ s_pc = "unused"
  /\ s_query \in QueryResults
  /\ response_text = <<>>
  /\ s_display = <<>>
  /\ s_status = "unset"
  /\ s_response = NoResponse
  /\ g_source \in Streams
  /\ g_timeout = None
  /\ g_pos = 0
  /\ g_yielded = <<>>
  /\ g_state = "unused"
  /\ g_reported = None
  /\ g_elapsed = 0

InitMain == LoopIdle /\ MainInit /\ FilesIdle

NextMain ==
  \/ ParseArgs /\ UNCHANGED <<loopVars, guardVars, sessionVars, fileVars>>
  \/ ResolveModels /\ UNCHANGED <<loopVars, guardVars, sessionVars, fileVars>>
  \/ RunAgent /\ UNCHANGED <<loopVars, fileVars>>
  \/ SessionQuery /\ UNCHANGED <<loopVars, mainVars, fileVars>>
  \/ SessionStep /\ UNCHANGED <<loopVars, mainVars, fileVars>>
  \/ SessionInterrupt /\ UNCHANGED <<loopVars, mainVars, fileVars>>

SpecMain == InitMain /\ [][NextMain]_vars

\* main up to the effective models, over every choice of the model options
ModelsInit ==
  /\ main_pc = "start"
  /\ cli \in [model : ModelOptions, init_model : ModelOptions,
              code_model : ModelOptions, idle_timeout : {None}]
  /\ args = NoArgs
  /\ main_init_model = "unset"
  /\ main_code_model = "unset"

InitModels == LoopIdle /\ GuardIdle /\ SessionIdle /\ FilesIdle /\ ModelsInit

NextModels ==
  \/ ParseArgs /\ UNCHANGED <<loopVars, guardVars, sessionVars, fileVars>>
  \/ ResolveModels /\ UNCHANGED <<loopVars, guardVars, sessionVars, fileVars>>

SpecModels == InitModels /\ [][NextModels]_vars

\* ------------------------------------------------------------------------
\* Properties of the session runner
\* ------------------------------------------------------------------------
\* text and printed lines of a sequence of messages, in order
RECURSIVE TextOfMessages(_)
TextOfMessages(msgs) ==
  IF msgs = <<>> THEN <<>>
  ELSE MessageText(Head(msgs).type, Head(msgs).content) \o TextOfMessages(Tail(msgs))

RECURSIVE DisplayOfMessages(_)
DisplayOfMessages(msgs) ==
  IF msgs = <<>> THEN <<>>
  ELSE MessageDisplay(Head(msgs).type, Head(msgs).content) \o DisplayOfMessages(Tail(msgs))

\* the lines printed for messages, those after the announcement and
\* before the closing line
MessageLines ==
  IF s_pc = "returned"
  THEN SubSeq(s_display, 2, Len(s_display) - 1)
  ELSE SubSeq(s_display, 2, Len(s_display))

\* C14: once the idle timer has fired the guard asks the iterator for
\* nothing more: no request is made past the one that stalled, nothing the
\* iterator holds after it is yielded, accumulated or printed, and after the
\* session has returned (or was interrupted) the stream is not consumed.
C14_NothingAfterTimeout ==
  /\ [](~IsNone(g_timeout) =>
          /\ \A k \in DOMAIN g_source : Stalls(g_source[k]) => g_pos <= k
          /\ g_state = "idle_timeout" =>
               /\ s_pc = "returned"
               /\ g_yielded = FirstVals(g_pos - 1)
               /\ response_text = TextOfMessages(g_yielded)
               /\ MessageLines = DisplayOfMessages(g_yielded))
  /\ [][(g_state = "idle_timeout" \/ s_pc \in {"returned", "interrupted"}) =>
          UNCHANGED <<g_pos, g_yielded, g_state, response_text, s_display>>]_vars

C14_Witness ==
  /\ g_state = "idle_timeout"
  /\ s_pc = "returned"
  /\ Stalls(g_source[g_pos])
  /\ g_source[g_pos].kind = "item"
  /\ g_pos < Len(g_source)
  /\ Len(g_yielded) >= 1

\* the text fragments of one message: the text blocks of an assistant
\* message, from block i on
RECURSIVE FragmentsFrom(_, _)
FragmentsFrom(m, i) ==
  IF i > Len(m.content) THEN <<>>
  ELSE (IF m.type = "AssistantMessage" /\ m.content[i].btype = "TextBlock"
        THEN m.content[i].text ELSE <<>>) \o FragmentsFrom(m, i + 1)

\* the text fragments of the first n events of the stream, in arrival order
RECURSIVE Fragments(_)
Fragments(n) ==
  IF n = 0 THEN <<>> ELSE Fragments(n - 1) \o FragmentsFrom(g_source[n].val, 1)

\* C15: when the query succeeds and the guarded stream ends normally the
\* session returns continue with the concatenation, in arrival order, of the
\* text fragments received and nothing else; the buffer starts empty.
C15_ContinueCarriesText ==
  /\ (s_query = "ok" /\ g_state = "ended") =>
       /\ s_pc = "returned"
       /\ s_status = "continue"
       /\ s_response = TextResponse(Fragments(NumItems))
  /\ s_status = "continue" => (s_query = "ok" /\ g_state = "ended")
  /\ (s_pc = "stream" /\ g_pos = 0) => response_text = <<>>

C15_Witness ==
  /\ s_status = "continue"
  /\ s_response.text = <<"a", "b", "c">>
  /\ Len(s_display) > 4

\* C16: when the guard times out the session returns idle_timeout with the
\* configured deadline; the timeout is never returned as error nor raised.
C16_TimeoutReturnsIdle ==
  /\ g_state = "idle_timeout" =>
       /\ s_pc = "returned"
       /\ s_status = "idle_timeout"
       /\ s_response = IdleResponse(g_timeout)
  /\ s_status = "idle_timeout" => g_state = "idle_timeout"

C16_Witness ==
  /\ s_status = "idle_timeout"
  /\ s_response.seconds = Some(MaxTimeout)
  /\ Stalls(g_source[g_pos])
  /\ Len(g_yielded) = MaxMessages

\* the iterator answered the last request with a failure before the timer
AnsweredWithFailure ==
  /\ g_pos >= 1
  /\ g_source[g_pos].kind \in {"raise", "raise_timeout"}
  /\ (IsNone(g_timeout) \/ g_source[g_pos].delay < Get(g_timeout))

\* C17: a failure other than a guard timeout, raised by the query or by the
\* stream, makes the session return error with that failure's message; when
\* the query fails the stream is never requested.
C17_FailuresReturnError ==
  /\ s_query = "fail" => (g_state = "unused" /\ g_pos = 0)
  /\ (s_query = "fail" /\ s_pc = "returned") =>
       (s_status = "error" /\ s_response = ErrorResponse("query"))
  /\ AnsweredWithFailure =>
       /\ s_pc = "returned"
       /\ s_status = "error"
       /\ s_response = ErrorResponse(g_source[g_pos].kind)

\* ---------------------------------------------------------------------------
\* Iterations, connections and interrupts of the orchestration loop
\* ---------------------------------------------------------------------------

SessionOutcomes == {"continue", "idle_timeout", "error"}

\* C18: iterations never overlap.  A session that has started and whose
\* outcome is not yet evaluated is "in progress"; there is at most one.  Each
\* session that ends produces one outcome from {continue, idle_timeout, error},
\* which the loop evaluates once (one entry of outcomes, appended in the step
\* that leaves the evaluation), and a later session starts only from the top
\* of the loop, which after the first session is reached only through the
\* inter-iteration delay that follows the evaluation.
C18_IterationsNeverOverlap ==
  /\ [](/\ Len(outcomes) <= Len(sessions)
        /\ Len(sessions) <= Len(outcomes) + 1
        /\ \A i \in DOMAIN outcomes : outcomes[i] \in SessionOutcomes
        /\ \A i \in DOMAIN sessions : sessions[i].iteration = i
        /\ pc \in {"session", "evaluate"} => Len(sessions) = Len(outcomes) + 1
        /\ pc \in {"top", "acquire", "sleep", "prepare"} =>
             Len(sessions) = Len(outcomes)
        /\ (pc = "done" /\ reason # "ExternalInterrupt") =>
             Len(sessions) = Len(outcomes))
  /\ [][/\ sessions' # sessions =>
           /\ pc = "acquire" /\ pc' = "session"
           /\ Len(sessions) = Len(outcomes)
           /\ SubSeq(sessions', 1, Len(sessions)) = sessions
           /\ Len(sessions') = Len(sessions) + 1
        /\ outcomes' # outcomes =>
           /\ pc = "evaluate" /\ pc' \in {"sleep", "done"}
           /\ outcomes' = Append(outcomes, status)
        /\ (pc = "evaluate" /\ pc' # "evaluate") => outcomes' # outcomes
        /\ (pc = "session" /\ pc' = "evaluate") => status' \in SessionOutcomes
        /\ (pc' = "acquire" /\ pc # "acquire") => pc = "top"
        /\ (pc' = "top" /\ pc # "top" /\ sessions # <<>>) =>
             pc \in {"sleep", "prepare"}
        /\ (pc' = "prepare" /\ pc # "prepare") => pc = "sleep"
        /\ (pc' = "sleep" /\ pc # "sleep") => pc = "evaluate"]_vars

C18_Witness ==
  /\ pc = "session"
  /\ Len(sessions) = 3
  /\ Len(outcomes) = 2
  /\ outcomes[1] = "idle_timeout"
  /\ outcomes[2] = "continue"

\* C19: every session has a connection of its own, created for it and
\* released when the session ends, whatever its exit (continue, idle_timeout,
\* error, interrupt), before the outcome is evaluated.  So at most one
\* connection is open, the open one belongs to the session in progress, none
\* is open during the delay or after termination, and no connection is used
\* by two iterations.
C19_ConnectionScoped ==
  /\ Cardinality(open_clients) <= 1
  /\ Len(sessions) <= clients_created
  /\ \A i \in DOMAIN sessions : sessions[i].client \in 1..clients_created
  /\ \A i, j \in DOMAIN sessions :
       i # j => sessions[i].client # sessions[j].client
  /\ open_clients # {} =>
       /\ pc = "session"
       /\ open_clients = {sessions[Len(sessions)].client}
  /\ pc = "session" => open_clients = {sessions[Len(sessions)].client}
  /\ pc \in {"evaluate", "sleep", "prepare", "top", "acquire", "done"} =>
       open_clients = {}
  /\ client_open <=> (open_clients # {})

C19_Witness ==
  /\ pc = "sleep"
  /\ outcomes = <<"error", "idle_timeout", "continue">>
  /\ clients_created = 3
  /\ open_clients = {}

InterruptiblePcs == {"session", "sleep", "prepare"}

\* C20: an external interrupt is taken only while a session is in progress
\* or during a delay between iterations; it ends the loop in that step with
\* reason ExternalInterrupt, releasing the connection that was open; the
\* interrupted session yields no outcome, and nothing happens afterwards: no
\* session is started and no outcome is recorded.
C20_InterruptTerminates ==
  /\ [](reason = "ExternalInterrupt" =>
          /\ pc = "done"
          /\ open_clients = {}
          /\ ~client_open)
  /\ [][/\ (reason' = "ExternalInterrupt" /\ reason # "ExternalInterrupt") =>
           /\ pc \in InterruptiblePcs
           /\ reason = "running"
           /\ pc' = "done"
           /\ open_clients' = {}
           /\ (pc = "session") = (open_clients # {})
           /\ UNCHANGED <<sessions, outcomes, iteration, consecutive_failures,
                          clients_created, status>>
        /\ reason = "ExternalInterrupt" => UNCHANGED loopVars]_vars

C20_Witness ==
  /\ reason = "ExternalInterrupt"
  /\ pc = "done"
  /\ Len(sessions) = 2
  /\ outcomes = <<"continue">>
  /\ open_clients = {}

\* ---------------------------------------------------------------------------
\* Liveness of a session under an idle deadline
\* ---------------------------------------------------------------------------

SessionOver == s_pc \in {"returned", "interrupted"}

\* C21: with an idle deadline configured, a session over a finite stream
\* eventually ends (it returns an outcome, or is interrupted from outside),
\* wherever the agent connection stops responding.
C21_StalledAgentCannotBlock ==
  (Truthy(g_timeout) /\ s_pc = "query") ~> SessionOver

\* ---------------------------------------------------------------------------
\* Properties of the configuration handed over by main
\* ---------------------------------------------------------------------------

C23_CountersFrame ==
  [][/\ consecutive_failures' # consecutive_failures => pc = "evaluate"
     /\ iteration' # iteration => pc = "top"
     /\ pc = "top" => iteration' = iteration + 1
     /\ pc # "top" => iteration' = iteration
     /\ pc # "evaluate" => consecutive_failures' = consecutive_failures]_loopVars

C23_Witness ==
  /\ pc = "session"
  /\ iteration = 4
  /\ consecutive_failures = 2
  /\ outcomes = <<"continue", "error", "idle_timeout">>

\* C24: a session with the initializer or the onboarding prompt runs on the
\* init model and a session with the coding prompt on the code model.  So
\* the init model serves at most one session of a run, that of iteration 1,
\* and none when the phase selected at startup is coding.
C24_PromptAndModelByPhase ==
  /\ \A i \in DOMAIN sessions :
       /\ sessions[i].prompt \in {"initializer", "onboarding", "coding"}
       /\ sessions[i].prompt \in {"initializer", "onboarding"} =>
            sessions[i].model = init_model
       /\ sessions[i].prompt = "coding" => sessions[i].model = code_model
       /\ sessions[i].model = init_model => i = 1
  /\ Cardinality({i \in DOMAIN sessions : sessions[i].model = init_model}) <= 1
  /\ (pc # "startup" /\ SelectedPhase(~is_first_run, has_existing_code) = "coding") =>
       \A i \in DOMAIN sessions : sessions[i].model = code_model
  /\ pc \in {"acquire", "session"} =>
       current_model = IF prompt = "coding" THEN code_model ELSE init_model

C24_Witness ==
  /\ Len(sessions) = 3
  /\ sessions[1].prompt = "onboarding"
  /\ sessions[1].model = init_model
  /\ sessions[2].model = code_model
  /\ sessions[3].model = code_model

\* C25: the loop never writes the progress ledger.  Whether the ledger
\* exists changes only in a step of the agent at work in a session, which
\* moves nothing of the loop; every step of the loop itself (startup, top of
\* cycle, client, session end, evaluation, delays, termination) leaves the
\* ledger as it is.
C25_LedgerReadOnly ==
  [][/\ tests_file_exists' # tests_file_exists =>
          /\ pc = "session"
          /\ UNCHANGED <<pc, is_first_run, has_existing_code, session_type,
                         iteration, consecutive_failures, prompt, current_model,
                         status, reason, sessions, outcomes, open_clients>>
     /\ pc' # pc => tests_file_exists' = tests_file_exists]_loopVars

C25_Witness ==
  /\ pc = "done"
  /\ reason = "MaxIterations"
  /\ is_first_run
  /\ tests_file_exists
  /\ spec_txt_exists
  /\ Len(outcomes) = 2

\* ---------------------------------------------------------------------------
\* has_existing_codebase
\* ---------------------------------------------------------------------------
MaxEntries == 3

\* a name is the sequence of its parts; "." is a part of its own
Dot == "."

GitDir == <<Dot, "git">>

EntryNames ==
  {GitDir, <<Dot, "aidd">>, <<Dot, "autok">>, <<Dot, "DS_Store">>, <<Dot, "env">>,
   <<"node_modules">>, <<"__pycache__">>, <<"src">>, <<"git">>,
   <<"README", Dot, "md">>}

\* the listings of a directory: names without repetition, in any order
Listings ==
  {l \in SeqsUpTo(EntryNames, MaxEntries) :
     \A i, j \in DOMAIN l : i # j => l[i] # l[j]}

ignored_patterns_GitNotIgnored ==
  {<<Dot, "auto">>, <<Dot, "autok">>, <<Dot, "automaker">>, <<Dot, "DS_Store">>,
   <<"__pycache__">>, <<"node_modules">>, <<Dot, "vscode">>, <<Dot, "idea">>}

ignored_patterns ==
  {<<Dot, "auto">>, <<Dot, "autok">>, <<Dot, "automaker">>, GitDir,
   <<Dot, "DS_Store">>, <<"__pycache__">>, <<"node_modules">>, <<Dot, "vscode">>,
   <<Dot, "idea">>}

\* item.name.startswith('.')
StartsWithDot(name) == name # <<>> /\ Head(name) = Dot

\* the two "continue" tests of the for loop
SkippedAsHidden(name) == StartsWithDot(name) /\ name # GitDir

SkippedAsTracking(name) == name \in ignored_patterns

CodebaseInit ==
  /\ hec_pc = "start"
  /\ project_exists \in BOOLEAN
  /\ dir_items \in IF project_exists THEN Listings ELSE {<<>>}
  /\ hec_pos = 0
  /\ hec_result = FALSE

\* "if not project_dir.exists(): return False"
CheckExists ==
  /\ hec_pc = "start"
  /\ IF project_exists
     THEN hec_pc' = "scan" /\ UNCHANGED hec_result
     ELSE hec_pc' = "returned" /\ hec_result' = FALSE
  /\ UNCHANGED <<project_exists, dir_items, hec_pos>>

\* one turn of "for item in project_dir.iterdir()"
ScanItem ==
  /\ hec_pc = "scan"
  /\ hec_pos < Len(dir_items)
  /\ hec_pos' = hec_pos + 1
  /\ LET name == dir_items[hec_pos + 1] IN
     IF SkippedAsHidden(name) \/ SkippedAsTracking(name)
     THEN UNCHANGED <<hec_pc, hec_result>>
     ELSE hec_pc' = "returned" /\ hec_result' = TRUE
  /\ UNCHANGED <<project_exists, dir_items>>

\* the listing is exhausted: "return False"
ScanEnd ==
  /\ hec_pc = "scan"
  /\ hec_pos = Len(dir_items)
  /\ hec_pc' = "returned"
  /\ hec_result' = FALSE
  /\ UNCHANGED <<project_exists, dir_items, hec_pos>>

InitCodebase ==
  /\ LoopIdle /\ GuardIdle /\ SessionIdle /\ MainIdle
  /\ MetadataIdle /\ ProgressIdle /\ ProjectIdle /\ CodebaseInit

NextCodebase ==
  \/ CheckExists /\ UNCHANGED <<loopVars, guardVars, sessionVars, mainVars, metadataVars,
                                progressVars, projectVars>>
  \/ ScanItem /\ UNCHANGED <<loopVars, guardVars, sessionVars, mainVars, metadataVars,
                                progressVars, projectVars>>
  \/ ScanEnd /\ UNCHANGED <<loopVars, guardVars, sessionVars, mainVars, metadataVars,
                                progressVars, projectVars>>

SpecCodebase == InitCodebase /\ [][NextCodebase]_vars

Range(q) == {q[i] : i \in DOMAIN q}

TrackingDirs == {<<Dot, "aidd">>, <<Dot, "autok">>, <<Dot, "automaker">>}

\* an entry that counts as code: not hidden, not an ignored name
OrdinaryEntry(name) ==
  /\ Head(name) # Dot
  /\ name \notin {<<"node_modules">>, <<"__pycache__">>} \cup TrackingDirs

OnlyArtifacts(names) ==
  \A n \in names : Head(n) = Dot \/ n \in {<<"node_modules">>, <<"__pycache__">>}

\* C26: has_existing_codebase returns true exactly when the directory exists
\* and lists at least one entry that is neither hidden nor an ignored name,
\* whatever the order of the listing: false for a missing or empty directory
\* and for one holding only hidden entries (.git included), tracking
\* directories, node_modules or __pycache__; true as soon as an ordinary
\* entry is among them.
C26_ExistingCodebase ==
  hec_pc = "returned" =>
    /\ hec_result = (project_exists /\ \E n \in Range(dir_items) : OrdinaryEntry(n))
    /\ ~project_exists => ~hec_result
    /\ dir_items = <<>> => ~hec_result
    /\ OnlyArtifacts(Range(dir_items)) => ~hec_result
    /\ Range(dir_items) = {GitDir} => ~hec_result
    /\ (\E n \in Range(dir_items) : n \in {<<"src">>, <<"git">>, <<"README", Dot, "md">>})
         => hec_result

C26_Witness ==
  /\ hec_pc = "returned"
  /\ hec_result
  /\ dir_items = <<GitDir, <<"node_modules">>, <<"src">>>>
  /\ hec_pos = 3

\* ---------------------------------------------------------------------------
\* Properties of the effective models
\* ---------------------------------------------------------------------------
Given(option) == ~IsNone(option)

GivenModel == IF Given(cli.model) THEN Get(cli.model) ELSE DEFAULT_MODEL

\* C27, as stated: the init model is --init-model when that option is given
\* and --model otherwise, the code model is --code-model when given and
\* --model otherwise, and --model is DEFAULT_MODEL when not given.
C27_ModelPerPhase_AsStated ==
  main_pc = "resolved" =>
    /\ main_init_model =
         IF Given(cli.init_model) THEN Get(cli.init_model) ELSE GivenModel
    /\ main_code_model =
         IF Given(cli.code_model) THEN Get(cli.code_model) ELSE GivenModel

GivenNonEmpty(option) == Given(option) /\ Get(option) # ""

\* C27, amended: the init model is --init-model when that option is given
\* with a non-empty value and --model otherwise (an empty --init-model counts
\* as not given); the code model likewise with --code-model; --model is
\* DEFAULT_MODEL when not given.  Each phase's model depends on its own
\* option and --model only, and a non-empty override wins over --model.
C27_ModelPerPhase ==
  main_pc = "resolved" =>
    /\ main_init_model =
         IF GivenNonEmpty(cli.init_model) THEN Get(cli.init_model) ELSE GivenModel
    /\ main_code_model =
         IF GivenNonEmpty(cli.code_model) THEN Get(cli.code_model) ELSE GivenModel
    /\ args.model = GivenModel

C27_Witness ==
  /\ main_pc = "resolved"
  /\ cli.model = Some("haiku")
  /\ cli.init_model = Some("opus")
  /\ cli.code_model = None
  /\ main_init_model = "opus"
  /\ main_code_model = "haiku"

\* ---------------------------------------------------------------------------
\* metadata_dir: find_or_create_metadata_dir and get_metadata_dir_name
\* ---------------------------------------------------------------------------
MaxCalls == 3

\* the names probed, in order of preference
metadata_dir_names_AutokFirst == <<".autok", ".aidd", ".automaker">>

metadata_dir_names == <<".aidd", ".autok", ".automaker">>

ProjectNames == {".aidd", ".autok", ".automaker", ".git", "src"}

\* "for dir_name in [...]: if (project_dir / dir_name).exists(): return"
RECURSIVE FirstExisting(_, _)
FirstExisting(names, entries) ==
  IF names = <<>> THEN None
  ELSE IF Head(names) \in entries THEN Some(Head(names))
  ELSE FirstExisting(Tail(names), entries)

\* find_or_create_metadata_dir: the name returned and the entries afterwards
FindOrCreate(entries) ==
  LET found == FirstExisting(metadata_dir_names, entries) IN
  IF ~IsNone(found)
  THEN [result |-> found, after |-> entries]
  ELSE [result |-> Some(".aidd"), after |-> entries \cup {".aidd"}]

\* get_metadata_dir_name
GetName(entries) ==
  [result |-> FirstExisting(metadata_dir_names, entries), after |-> entries]

MetadataInit ==
  /\ md_entries \in SUBSET ProjectNames
  /\ md_calls = <<>>

CallFindOrCreate ==
  /\ Len(md_calls) < MaxCalls
  /\ LET r == FindOrCreate(md_entries) IN
     /\ md_entries' = r.after
     /\ md_calls' = Append(md_calls, [fn |-> "find_or_create_metadata_dir",
                                      before |-> md_entries, result |-> r.result,
                                      after |-> r.after])

CallGetName ==
  /\ Len(md_calls) < MaxCalls
  /\ LET r == GetName(md_entries) IN
     /\ md_entries' = r.after
     /\ md_calls' = Append(md_calls, [fn |-> "get_metadata_dir_name",
                                      before |-> md_entries, result |-> r.result,
                                      after |-> r.after])

InitMetadata ==
  /\ LoopIdle /\ GuardIdle /\ SessionIdle /\ MainIdle
  /\ CodebaseIdle /\ ProgressIdle /\ ProjectIdle /\ MetadataInit

NextMetadata ==
  \/ CallFindOrCreate /\ UNCHANGED <<loopVars, guardVars, sessionVars, mainVars, codebaseVars,
                                    progressVars, projectVars>>
  \/ CallGetName /\ UNCHANGED <<loopVars, guardVars, sessionVars, mainVars, codebaseVars,
                                    progressVars, projectVars>>

SpecMetadata == InitMetadata /\ [][NextMetadata]_vars

\* the directory preferred among those that exist, by the stated precedence
Preferred(entries) ==
  IF ".aidd" \in entries THEN Some(".aidd")
  ELSE IF ".autok" \in entries THEN Some(".autok")
  ELSE IF ".automaker" \in entries THEN Some(".automaker")
  ELSE None

IsFind(c) == c.fn = "find_or_create_metadata_dir"

\* C28: find_or_create_metadata_dir returns the first existing directory in
\* the order .aidd, .autok, .automaker, creating nothing, and creates and
\* returns .aidd only when none of the three exists; the directory returned
\* exists afterwards; a second call returns the same directory and creates
\* nothing; get_metadata_dir_name names the same directory whenever one of
\* the three exists, and None only when none does.
C28_MetadataDir ==
  \A i \in DOMAIN md_calls :
    LET c == md_calls[i] IN
    /\ IsFind(c) =>
         /\ ~IsNone(c.result)
         /\ Get(c.result) \in c.after
         /\ ~IsNone(Preferred(c.before)) =>
              (c.result = Preferred(c.before) /\ c.after = c.before)
         /\ IsNone(Preferred(c.before)) =>
              (c.result = Some(".aidd") /\ c.after = c.before \cup {".aidd"})
         /\ \A j \in DOMAIN md_calls :
              (j < i /\ IsFind(md_calls[j])) =>
                (c.result = md_calls[j].result /\ c.after = c.before)
    /\ ~IsFind(c) =>
         /\ c.after = c.before
         /\ c.result = Preferred(c.before)
         /\ IsNone(c.result) <=> (c.before \cap {".aidd", ".autok", ".automaker"} = {})
         /\ \A j \in DOMAIN md_calls :
              (j < i /\ IsFind(md_calls[j])) => c.result = md_calls[j].result

C28_Witness ==
  /\ Len(md_calls) = 3
  /\ md_calls[1].before = {".git", "src"}
  /\ IsFind(md_calls[1])
  /\ md_calls[1].after = {".git", "src", ".aidd"}
  /\ IsFind(md_calls[2])
  /\ md_calls[2].result = Some(".aidd")
  /\ ~IsFind(md_calls[3])
  /\ md_calls[3].result = Some(".aidd")

\* ---------------------------------------------------------------------------
\* progress: load_feature_list, count_passing_tests, get_feature_breakdown
\* ---------------------------------------------------------------------------
MaxFeatures == 2

\* a feature of the ledger; each field may be missing (None)
Features ==
  [passes : {None, Some(TRUE), Some(FALSE)},
   area : {None, Some("ui"), Some("api")},
   priority : {None, Some("high")},
   status : {None, Some("open")},
   category : {None, Some("functional")}]

Ledgers ==
  {NoLedger, [state |-> "invalid", tests |-> <<>>]}
    \cup {[state |-> "valid", tests |-> t] : t \in SeqsUpTo(Features, MaxFeatures)}

\* load_feature_list: None when the file is missing or does not parse
load_feature_list(file) ==
  IF file.state = "missing" THEN None
  ELSE IF file.state = "invalid" THEN None
  ELSE Some(file.tests)

\* test.get(field, default)
GetOr(field, default) == IF IsNone(field) THEN default ELSE Get(field)

\* test.get("passes", False), as a condition
Passes_MissingCounts(test) == GetOr(test.passes, TRUE)

Passes(test) == GetOr(test.passes, FALSE)

\* sum(1 for test in tests if test.get("passes", False))
RECURSIVE CountPassing(_)
CountPassing(tests) ==
  IF tests = <<>> THEN 0
  ELSE (IF Passes(Head(tests)) THEN 1 ELSE 0) + CountPassing(Tail(tests))

count_passing_tests(file) ==
  LET tests == load_feature_list(file) IN
  IF IsNone(tests) THEN <<0, 0>>
  ELSE <<CountPassing(Get(tests)), Len(Get(tests))>>

ProgressInit ==
  /\ ledger \in Ledgers
  /\ progress_calls = {}
  /\ count_result = <<0, 0>>
  /\ breakdown_result = NoBreakdown

CountPassingTests ==
  /\ "count_passing_tests" \notin progress_calls
  /\ count_result' = count_passing_tests(ledger)
  /\ progress_calls' = progress_calls \cup {"count_passing_tests"}
  /\ UNCHANGED <<ledger, breakdown_result>>

\* Counter(keys): how often each key occurs
Counter(keys) ==
  [k \in {keys[i] : i \in DOMAIN keys} |->
     Cardinality({i \in DOMAIN keys : keys[i] = k})]

\* counter.get(key, 0)
CountOr0(counter, key) == IF key \in DOMAIN counter THEN counter[key] ELSE 0

\* the keys test.get(field, "unknown") of the tests, in order
MissingKey_None == "none"

MissingKey == "unknown"

AreaKeys(tests) == [i \in DOMAIN tests |-> GetOr(tests[i].area, MissingKey)]

PriorityKeys(tests) == [i \in DOMAIN tests |-> GetOr(tests[i].priority, MissingKey)]

StatusKeys(tests) == [i \in DOMAIN tests |-> GetOr(tests[i].status, MissingKey)]

CategoryKeys(tests) == [i \in DOMAIN tests |-> GetOr(tests[i].category, MissingKey)]

\* "... for test in tests if test.get('passes', False)"
PassingOnly(tests) == SelectSeq(tests, Passes)

\* {key: {"total": count, "passing": passing.get(key, 0)} for key, count in ...}
TotalsAndPassing(counts, passing) ==
  [k \in DOMAIN counts |-> [total |-> counts[k], passing |-> CountOr0(passing, k)]]

get_feature_breakdown(file) ==
  LET tests == load_feature_list(file) IN
  IF IsNone(tests) THEN NoBreakdown
  ELSE LET t == Get(tests) IN
       [keys |-> {"by_area", "by_priority", "by_status", "by_category"},
        by_area |-> TotalsAndPassing(Counter(AreaKeys(t)),
                                     Counter(AreaKeys(PassingOnly(t)))),
        by_priority |-> TotalsAndPassing(Counter(PriorityKeys(t)),
                                         Counter(PriorityKeys(PassingOnly(t)))),
        by_status |-> Counter(StatusKeys(t)),
        by_category |-> Counter(CategoryKeys(t))]

GetFeatureBreakdown ==
  /\ "get_feature_breakdown" \notin progress_calls
  /\ breakdown_result' = get_feature_breakdown(ledger)
  /\ progress_calls' = progress_calls \cup {"get_feature_breakdown"}
  /\ UNCHANGED <<ledger, count_result>>

InitProgress ==
  /\ LoopIdle /\ GuardIdle /\ SessionIdle /\ MainIdle
  /\ CodebaseIdle /\ MetadataIdle /\ ProjectIdle /\ ProgressInit

NextProgress ==
  \/ CountPassingTests /\ UNCHANGED <<loopVars, guardVars, sessionVars, mainVars,
                                      codebaseVars, metadataVars, projectVars>>
  \/ GetFeatureBreakdown /\ UNCHANGED <<loopVars, guardVars, sessionVars, mainVars,
                                        codebaseVars, metadataVars, projectVars>>

SpecProgress == InitProgress /\ [][NextProgress]_vars

PassingFeatures(tests) == {i \in DOMAIN tests : tests[i].passes = Some(TRUE)}

\* C29: count_passing_tests returns (p, t) with t the number of features of
\* the ledger and p the number of those whose passes flag is true, so that
\* 0 <= p <= t, whatever optional fields the features carry; for a missing
\* or invalid ledger file load_feature_list returns None and the count is
\* (0, 0).
C29_CountPassing ==
  "count_passing_tests" \in progress_calls =>
    /\ ledger.state = "valid" =>
         /\ load_feature_list(ledger) = Some(ledger.tests)
         /\ count_result[2] = Len(ledger.tests)
         /\ count_result[1] = Cardinality(PassingFeatures(ledger.tests))
    /\ 0 <= count_result[1]
    /\ count_result[1] <= count_result[2]
    /\ ledger.state \in {"missing", "invalid"} =>
         /\ load_feature_list(ledger) = None
         /\ count_result = <<0, 0>>

C29_Witness ==
  /\ "count_passing_tests" \in progress_calls
  /\ ledger.state = "valid"
  /\ count_result = <<1, 2>>
  /\ ledger.tests[1].area = None
  /\ ledger.tests[1].passes = None
  /\ ledger.tests[2].area = Some("ui")

\* sum of a counter over its keys
RECURSIVE SumOver(_, _)
SumOver(f, keys) ==
  IF keys = {} THEN 0
  ELSE LET k == CHOOSE x \in keys : TRUE IN f[k] + SumOver(f, keys \ {k})

SumOfCounts(counter) == SumOver(counter, DOMAIN counter)

SumOfTotals(by) == SumOver([k \in DOMAIN by |-> by[k].total], DOMAIN by)

\* the features counted under a key: those carrying it, and under "unknown"
\* also those that lack the field
UnderKey(field, key) ==
  IF IsNone(field) THEN key = "unknown" ELSE Get(field) = key

\* C30: get_feature_breakdown partitions the ledger along each dimension.
\* For area and for priority the totals of the keys sum to the number of
\* features, and each key's passing count is at most its total and is the
\* number of passing features with that key; the status counts and the
\* category counts each sum to the number of features; a feature that lacks
\* a field is counted under "unknown"; a missing ledger gives the empty
\* breakdown.
C30_BreakdownPartitions ==
  "get_feature_breakdown" \in progress_calls =>
    LET b == breakdown_result
        t == ledger.tests
    IN
    /\ ledger.state = "missing" => b.keys = {}
    /\ ledger.state = "valid" =>
         /\ b.keys = {"by_area", "by_priority", "by_status", "by_category"}
         /\ SumOfTotals(b.by_area) = Len(t)
         /\ SumOfTotals(b.by_priority) = Len(t)
         /\ SumOfCounts(b.by_status) = Len(t)
         /\ SumOfCounts(b.by_category) = Len(t)
         /\ \A k \in DOMAIN b.by_area :
              /\ b.by_area[k].passing <= b.by_area[k].total
              /\ b.by_area[k].total =
                   Cardinality({i \in DOMAIN t : UnderKey(t[i].area, k)})
              /\ b.by_area[k].passing =
                   Cardinality({i \in PassingFeatures(t) : UnderKey(t[i].area, k)})
         /\ \A k \in DOMAIN b.by_priority :
              /\ b.by_priority[k].passing <= b.by_priority[k].total
              /\ b.by_priority[k].total =
                   Cardinality({i \in DOMAIN t : UnderKey(t[i].priority, k)})
              /\ b.by_priority[k].passing =
                   Cardinality({i \in PassingFeatures(t) : UnderKey(t[i].priority, k)})
         /\ \A k \in DOMAIN b.by_status :
              b.by_status[k] = Cardinality({i \in DOMAIN t : UnderKey(t[i].status, k)})
         /\ \A k \in DOMAIN b.by_category :
              b.by_category[k] =
                Cardinality({i \in DOMAIN t : UnderKey(t[i].category, k)})
         /\ \A i \in DOMAIN t :
              /\ IsNone(t[i].area) => "unknown" \in DOMAIN b.by_area
              /\ IsNone(t[i].priority) => "unknown" \in DOMAIN b.by_priority
              /\ IsNone(t[i].status) => "unknown" \in DOMAIN b.by_status
              /\ IsNone(t[i].category) => "unknown" \in DOMAIN b.by_category

C30_Witness ==
  /\ "get_feature_breakdown" \in progress_calls
  /\ ledger.state = "valid"
  /\ Len(ledger.tests) = 2
  /\ DOMAIN breakdown_result.by_area = {"ui", "unknown"}
  /\ breakdown_result.by_area["ui"] = [total |-> 1, passing |-> 1]
  /\ breakdown_result.by_area["unknown"] = [total |-> 1, passing |-> 0]
  /\ DOMAIN breakdown_result.by_status = {"unknown"}

\* ---------------------------------------------------------------------------
\* The phase during the first session
\* ---------------------------------------------------------------------------
FirstSessionRunning == pc \in {"acquire", "session"} /\ iteration = 1

\* C31, as stated: in a loop that starts as initializer or onboarding the
\* session type keeps that value during the whole first session, and
\* becomes coding only once that session has completed.
C31_PhaseKeptDuringFirstSession ==
  (FirstSessionRunning /\ prompt \in {"initializer", "onboarding"}) =>
    session_type = prompt

\* C31, amended: the first session of such a loop runs with the prompt and
\* the model of the initial phase, but the session type itself is rewritten
\* to coding when that prompt is chosen, at the top of iteration 1 and so
\* before the session runs; it is coding during the whole first session and
\* ever after, whatever the outcome, and changes in no other step.
C31_PhaseRewrittenBeforeSession ==
  /\ [](/\ (FirstSessionRunning /\ prompt \in {"initializer", "onboarding"}) =>
             /\ prompt = SelectedPhase(~is_first_run, has_existing_code)
             /\ current_model = init_model
             /\ session_type = "coding"
        /\ (iteration >= 1 /\ pc \notin {"top", "done"}) => session_type = "coding"
        /\ Len(outcomes) >= 1 => session_type = "coding")
  /\ [][session_type' # session_type =>
          \/ pc = "startup"
          \/ /\ pc = "top" /\ iteration = 0 /\ pc' = "acquire"
             /\ session_type \in {"initializer", "onboarding"}
             /\ prompt' = session_type
             /\ session_type' = "coding"]_loopVars

C31_Witness ==
  /\ pc = "session"
  /\ iteration = 1
  /\ prompt = "onboarding"
  /\ current_model = init_model
  /\ session_type = "coding"
  /\ outcomes = <<>>

\* ---------------------------------------------------------------------------
\* Order of the display within a session
\* ---------------------------------------------------------------------------
\* what arrives in one block: a text fragment, a tool invocation, a tool
\* result, or something else
Arrival(mtype, b) ==
  IF mtype = "AssistantMessage" /\ b.btype = "TextBlock" THEN <<[what |-> "text", val |-> b.text, quiet |-> FALSE]>>
  ELSE IF mtype = "AssistantMessage" /\ b.btype = "ToolUseBlock"
    THEN <<[what |-> "tool", val |-> b.name, quiet |-> FALSE]>>
  ELSE IF mtype = "UserMessage" /\ b.btype = "ToolResultBlock"
    THEN <<[what |-> "result", val |-> b.content,
            quiet |-> ~b.is_error /\ ~ContainsBlocked(b.content)]>>
  ELSE <<>>

\* the arrivals of block i and the later blocks of message m
RECURSIVE ArrivalsFrom(_, _)
ArrivalsFrom(m, i) ==
  IF i > Len(m.content) THEN <<>>
  ELSE Arrival(m.type, m.content[i]) \o ArrivalsFrom(m, i + 1)

\* the arrivals of the first n messages of a sequence of messages
RECURSIVE Arrivals(_, _)
Arrivals(msgs, n) ==
  IF n = 0 THEN <<>> ELSE Arrivals(msgs, n - 1) \o ArrivalsFrom(msgs[n], 1)

\* what one printed line forwards: the fragment, the tool name, or the
\* result (whose content "[Done]" does not repeat)
Forwarded(line) ==
  CASE line.what = "text" -> <<[what |-> "text", val |-> line.val]>>
    [] line.what = "tool" -> <<[what |-> "tool", val |-> line.val]>>
    [] line.what \in {"blocked", "error"} -> <<[what |-> "result", val |-> line.val]>>
    [] line.what = "done" -> <<[what |-> "result", val |-> <<>>]>>
    [] OTHER -> <<>>

RECURSIVE ForwardedUpTo(_)
ForwardedUpTo(n) ==
  IF n = 0 THEN <<>> ELSE ForwardedUpTo(n - 1) \o Forwarded(s_display[n])

\* an arrival as the display forwards it: a result that succeeded is
\* confirmed without its content
AsForwarded(a) == [what |-> a.what, val |-> IF a.quiet THEN <<>> ELSE a.val]

ArrivedSoFar ==
  LET as == Arrivals(g_yielded, Len(g_yielded)) IN [i \in DOMAIN as |-> AsForwarded(as[i])]

\* C32: text fragments, tool invocations and tool results are displayed in
\* exactly the order they arrive: whenever the session is between two
\* requests, what has been displayed is what has arrived so far, item by
\* item and block by block, nothing reordered, held back or dropped; a
\* step that takes an item extends the display by that item alone.
C32_DisplayInArrivalOrder ==
  /\ [](s_pc \in {"stream", "returned", "interrupted"} =>
          ForwardedUpTo(Len(s_display)) = ArrivedSoFar)
  /\ [][Len(g_yielded') = Len(g_yielded) + 1 =>
          /\ Len(s_display') >= Len(s_display)
          /\ SubSeq(s_display', 1, Len(s_display)) = s_display
          /\ Len(s_display') - Len(s_display) =
               Len(MessageDisplay(g_yielded'[Len(g_yielded')].type,
                                  g_yielded'[Len(g_yielded')].content))]_<<guardVars, sessionVars>>

C32_Witness ==
  /\ s_pc = "stream"
  /\ Len(g_yielded) = 2
  /\ g_yielded[1].type = "AssistantMessage"
  /\ Len(g_yielded[1].content) = 3
  /\ g_yielded[2].type = "UserMessage"
  /\ Len(g_yielded[2].content) = 2
  /\ Len(ForwardedUpTo(Len(s_display))) = 5

\* ---------------------------------------------------------------------------
\* Classification of tool results
\* ---------------------------------------------------------------------------
\* the content has the word "blocked" in it, in any letter case
MentionsBlocked(c) == \E i \in DOMAIN c : c[i] \in {"blocked", "Blocked", "BLOCKED"}

\* blocked before error before ok
ResultClass(content, flagged) ==
  IF MentionsBlocked(content) THEN "blocked"
  ELSE IF flagged THEN "error"
  ELSE "done"

\* the tool results among the first n arrivals, each with its class
RECURSIVE ResultClasses(_, _)
ResultClasses(as, n) ==
  IF n = 0 THEN <<>>
  ELSE ResultClasses(as, n - 1) \o
         (IF as[n].what = "result" THEN <<as[n].class>> ELSE <<>>)

\* the tool results yielded so far with the class their content and error
\* flag give them
RECURSIVE ResultBlocksFrom(_, _)
ResultBlocksFrom(m, i) ==
  IF i > Len(m.content) THEN <<>>
  ELSE (IF m.type = "UserMessage" /\ m.content[i].btype = "ToolResultBlock"
        THEN <<[what |-> "result",
                class |-> ResultClass(m.content[i].content, m.content[i].is_error)]>>
        ELSE <<>>) \o ResultBlocksFrom(m, i + 1)

RECURSIVE ResultBlocks(_)
ResultBlocks(n) ==
  IF n = 0 THEN <<>> ELSE ResultBlocks(n - 1) \o ResultBlocksFrom(g_yielded[n], 1)

\* the result lines of the display, each as the class it was printed under
ResultLines ==
  [i \in DOMAIN s_display |->
     [what |-> IF s_display[i].what \in {"blocked", "error", "done"} THEN "result" ELSE "other",
      class |-> s_display[i].what]]

\* C33: every tool result is printed under exactly one of blocked, error and
\* ok: blocked if and only if its content has "blocked" in it in any letter
\* case, with or without the error flag; otherwise error if and only if the
\* error flag is set; otherwise ok.
C33_ResultClassification ==
  s_pc \in {"stream", "returned", "interrupted"} =>
    ResultClasses(ResultLines, Len(s_display)) =
      ResultClasses(ResultBlocks(Len(g_yielded)), Len(ResultBlocks(Len(g_yielded))))

C33_Witness ==
  /\ s_pc = "returned"
  /\ Len(g_yielded) = 2
  /\ ResultClasses(ResultLines, Len(s_display)) = <<"blocked", "blocked", "error", "done">>
  /\ g_yielded[1].content[1].is_error
  /\ ~g_yielded[1].content[2].is_error

\* ---------------------------------------------------------------------------
\* An interrupt is not a session outcome
\* ---------------------------------------------------------------------------
\* C34: an interrupt delivered while a session is running (or while the loop
\* sleeps) is not turned into an outcome: no status is returned or recorded
\* for it, consecutive_failures keeps its value, and the loop ends at once
\* with the interrupt, not the failure threshold, as its reason.
C34_InterruptIsNoOutcome ==
  /\ [](interrupted => pc = "done" /\ reason = "ExternalInterrupt")
  /\ [][interrupted' # interrupted =>
          /\ status' = status
          /\ outcomes' = outcomes
          /\ consecutive_failures' = consecutive_failures
          /\ reason' # "FailureThreshold"]_loopVars

C34_Witness ==
  /\ interrupted
  /\ pc = "done"
  /\ Len(sessions) = Len(outcomes) + 1
  /\ Truthy(quit_on_abort)
  /\ consecutive_failures + 1 = Get(quit_on_abort)
  /\ open_clients = {}

\* ---------------------------------------------------------------------------
\* Bounds on the failure counter
\* ---------------------------------------------------------------------------
\* the sessions that have run to their end: one per status evaluated, and
\* the one whose status is about to be evaluated
SessionsCompleted == Len(outcomes) + (IF pc = "evaluate" THEN 1 ELSE 0)

\* C35: consecutive_failures never exceeds the number of sessions completed,
\* which never exceeds iteration; with a threshold T >= 1 the counter never
\* exceeds T, and it equals T only when the loop has terminated with the
\* failure threshold as its reason, so no session runs with the counter at T.
C35_CounterBounds ==
  /\ consecutive_failures <= SessionsCompleted
  /\ SessionsCompleted <= iteration
  /\ (~IsNone(quit_on_abort) /\ Get(quit_on_abort) >= 1) =>
       /\ consecutive_failures <= Get(quit_on_abort)
       /\ consecutive_failures = Get(quit_on_abort) =>
            pc = "done" /\ reason = "FailureThreshold"

C35_Witness ==
  /\ quit_on_abort = Some(2)
  /\ consecutive_failures = 2
  /\ pc = "done"
  /\ reason = "FailureThreshold"
  /\ outcomes = <<"error", "continue", "idle_timeout", "error">>
  /\ iteration = 4

\* ---------------------------------------------------------------------------
\* The last permitted iteration fails
\* ---------------------------------------------------------------------------
BothLimits ==
  /\ ~IsNone(max_iterations) /\ Get(max_iterations) >= 1
  /\ ~IsNone(quit_on_abort) /\ Get(quit_on_abort) >= 1

LastIteration == BothLimits /\ iteration = Get(max_iterations)

\* C36: with both limits configured, when the session of iteration
\* N = max_iterations fails and the counter reaches the threshold, the loop
\* ends there with the failure threshold as reason and without a delay; when
\* the counter stays below the threshold the loop takes the delay (and no
\* pause before a next session) and then ends with the iteration limit as
\* reason, unless it is interrupted. A terminated run has one reason, which
\* never changes.
C36_LastIterationFails ==
  /\ [][(LastIteration /\ pc = "evaluate" /\ status \in {"idle_timeout", "error"}) =>
          IF consecutive_failures + 1 >= Get(quit_on_abort)
          THEN pc' = "done" /\ reason' = "FailureThreshold"
          ELSE pc' = "sleep" /\ reason' = "running"]_loopVars
  /\ [][(LastIteration /\ pc = "sleep") =>
          \/ pc' = "top" /\ reason' = "running"
          \/ pc' = "done" /\ reason' = "ExternalInterrupt"]_loopVars
  /\ [][(LastIteration /\ pc = "top") =>
          pc' = "done" /\ reason' = "MaxIterations"]_loopVars
  /\ [](pc = "done" <=> reason # "running")
  /\ [][pc = "done" => reason' = reason]_loopVars

C36_Witness ==
  /\ LastIteration
  /\ Get(max_iterations) = 2
  /\ Get(quit_on_abort) = 2
  /\ outcomes = <<"error", "idle_timeout">>
  /\ pc = "done"
  /\ reason = "FailureThreshold"

C36_WitnessBelow ==
  /\ BothLimits
  /\ Get(max_iterations) = 2
  /\ Get(quit_on_abort) = 2
  /\ outcomes = <<"continue", "error">>
  /\ pc = "done"
  /\ reason = "MaxIterations"

\* ---------------------------------------------------------------------------
\* A failure before the session starts
\* ---------------------------------------------------------------------------
\* C37: a failure raised before the session of an iteration starts (the
\* prompt cannot be loaded, the client cannot be created, the connection
\* cannot be opened) is not a session outcome: it ends the run, the failure
\* counter keeps its value, no status is recorded, no session starts
\* afterwards and no connection is left open. Every status that is
\* evaluated belongs to a session that was started.
C37_SetupFailurePropagates ==
  /\ [](/\ reason = "FatalError" => pc = "done" /\ open_clients = {}
        /\ pc = "evaluate" => Len(sessions) = Len(outcomes) + 1
        /\ Len(outcomes) <= Len(sessions))
  /\ [][/\ (pc \in {"top", "acquire"} /\ pc' \notin {"acquire", "session"}) =>
             /\ pc' = "done"
             /\ reason' \in {"FatalError", "MaxIterations"}
             /\ consecutive_failures' = consecutive_failures
             /\ status' = status
             /\ outcomes' = outcomes
             /\ sessions' = sessions
             /\ open_clients' = {}
        /\ reason = "FatalError" => UNCHANGED loopVars]_loopVars

C37_Witness ==
  /\ reason = "FatalError"
  /\ pc = "done"
  /\ iteration = 2
  /\ consecutive_failures = 1
  /\ clients_created = 2
  /\ Len(sessions) = 1
  /\ open_clients = {}

\* ---------------------------------------------------------------------------
\* The files of the project over runs of the program
\* (run_autonomous_agent startup, copy_spec_to_project, print_progress_summary)
\* ---------------------------------------------------------------------------
MaxRuns == 2

PassingFeature ==
  [passes |-> Some(TRUE), area |-> None, priority |-> None, status |-> None,
   category |-> None]

FailingFeature ==
  [passes |-> Some(FALSE), area |-> None, priority |-> None, status |-> None,
   category |-> None]

\* the ledgers a feature_list.json may hold
ProjectLedgers ==
  {NoLedger,
   [state |-> "invalid", tests |-> <<>>],
   [state |-> "valid", tests |-> <<>>],
   [state |-> "valid", tests |-> <<PassingFeature>>],
   [state |-> "valid", tests |-> <<PassingFeature, FailingFeature>>]}

\* spec.txt: missing, something already there, or the copy of the source
SpecTexts == {"missing", "present", "source"}

\* tests_file.exists()
Exists(file) == file.state # "missing"

copy_spec_to_project_Overwrites(dest) == "source"

\* "if not spec_dest.exists(): shutil.copy(spec_source, spec_dest)"
copy_spec_to_project(dest) == IF dest = "missing" THEN "source" ELSE dest

\* print_progress_summary(project_dir): the counts of
\* project_dir / "feature_list.json", or "not yet created"
print_progress_summary(file) ==
  LET counts == count_passing_tests(file) IN
  IF counts[2] = 0 THEN [kind |-> "not_created", passing |-> 0, total |-> 0]
  ELSE [kind |-> "counts", passing |-> counts[1], total |-> counts[2]]

\* a ledger in the project directory is an entry has_existing_codebase finds
ProjectInit ==
  /\ p_pc = "startup"
  /\ md_ledger \in ProjectLedgers
  /\ root_ledger \in ProjectLedgers
  /\ spec_txt \in {"missing", "present"}
  /\ has_code \in BOOLEAN
  /\ Exists(root_ledger) => has_code
  /\ p_session_type = "unset"
  /\ summary = NoSummary
  /\ runs = 0

\* startup of run_autonomous_agent: the session type is selected; the
\* initializer copies the spec, the coding agent prints the summary
ProjectStartup ==
  /\ p_pc = "startup"
  /\ runs < MaxRuns
  /\ runs' = runs + 1
  /\ p_session_type' = SelectSessionType(~Exists(md_ledger), has_code)
  /\ spec_txt' = IF p_session_type' = "initializer"
                 THEN copy_spec_to_project(spec_txt) ELSE spec_txt
  /\ summary' = IF p_session_type' = "coding"
                THEN print_progress_summary(root_ledger) ELSE summary
  /\ p_pc' = "session"
  /\ UNCHANGED <<md_ledger, root_ledger, has_code>>

\* a session: the agent may write the ledger, in the metadata directory or
\* in the project directory, and may write code
ProjectSession ==
  /\ p_pc = "session"
  /\ \/ UNCHANGED <<md_ledger, root_ledger, has_code>>
     \/ /\ md_ledger' \in ProjectLedgers \ {NoLedger, md_ledger}
        /\ has_code' \in {has_code, TRUE}
        /\ UNCHANGED root_ledger
     \/ /\ root_ledger' \in ProjectLedgers \ {NoLedger, root_ledger}
        /\ has_code' = TRUE
        /\ UNCHANGED md_ledger
  /\ p_pc' = "summary"
  /\ UNCHANGED <<spec_txt, p_session_type, summary, runs>>

\* print_progress_summary(project_dir) after the session
ProjectSummary ==
  /\ p_pc = "summary"
  /\ summary' = print_progress_summary(root_ledger)
  /\ p_pc' = "stopped"
  /\ UNCHANGED <<md_ledger, root_ledger, spec_txt, has_code, p_session_type, runs>>

\* the program is run again on the same project directory
ProjectRestart ==
  /\ p_pc = "stopped"
  /\ runs < MaxRuns
  /\ p_pc' = "startup"
  /\ p_session_type' = "unset"
  /\ summary' = NoSummary
  /\ UNCHANGED <<md_ledger, root_ledger, spec_txt, has_code, runs>>

InitProject ==
  /\ LoopIdle /\ GuardIdle /\ SessionIdle /\ MainIdle
  /\ CodebaseIdle /\ MetadataIdle /\ ProgressIdle /\ ProjectInit

NextProject ==
  \/ ProjectStartup /\ UNCHANGED <<loopVars, guardVars, sessionVars, mainVars,
                                    codebaseVars, metadataVars, progressVars>>
  \/ ProjectSession /\ UNCHANGED <<loopVars, guardVars, sessionVars, mainVars,
                                    codebaseVars, metadataVars, progressVars>>
  \/ ProjectSummary /\ UNCHANGED <<loopVars, guardVars, sessionVars, mainVars,
                                    codebaseVars, metadataVars, progressVars>>
  \/ ProjectRestart /\ UNCHANGED <<loopVars, guardVars, sessionVars, mainVars,
                                    codebaseVars, metadataVars, progressVars>>

SpecProject == InitProject /\ [][NextProject]_vars

\* C38: the summary printed after a session is computed from the ledger
\* whose existence decides whether this is a first run, feature_list.json in
\* the metadata directory: whenever that ledger holds at least one feature
\* the summary printed gives its passing and total counts, not "not yet
\* created".
C38_SummaryFromSameLedger ==
  (p_pc = "stopped" /\ md_ledger.state = "valid" /\ Len(md_ledger.tests) >= 1) =>
    /\ summary.kind = "counts"
    /\ summary.passing = count_passing_tests(md_ledger)[1]
    /\ summary.total = count_passing_tests(md_ledger)[2]

\* C39: spec.txt is written only by a startup that selects the initializer,
\* and only when it is missing, as a copy of the source; an existing
\* spec.txt is never overwritten, so a second copy changes nothing; a
\* startup that selects onboarding or coding leaves it as it is.
C39_SpecCopiedOnceAtInit ==
  /\ \A d \in SpecTexts :
       /\ d # "missing" => copy_spec_to_project(d) = d
       /\ copy_spec_to_project(copy_spec_to_project(d)) = copy_spec_to_project(d)
  /\ [][/\ spec_txt' # spec_txt =>
             /\ p_pc = "startup"
             /\ p_session_type' = "initializer"
             /\ spec_txt = "missing"
             /\ spec_txt' = "source"
        /\ (p_pc = "startup" /\ p_pc' = "session" /\ p_session_type' = "initializer") =>
             spec_txt' # "missing"
        /\ (p_pc = "startup" /\ p_session_type' \in {"onboarding", "coding"}) =>
             spec_txt' = spec_txt]_projectVars

C39_Witness ==
  /\ runs = 2
  /\ p_pc = "session"
  /\ p_session_type = "initializer"
  /\ spec_txt = "present"

====
